---- MODULE Spec2Model ----
(***************************************************************************)
(* Model of the GitHub Actions expression evaluator                        *)
(* (utils/expressionEvaluator.ts, class ExpressionEvaluator).              *)
(*                                                                         *)
(* Text is a sequence of one-character strings, so that the evaluator's    *)
(* scanning of raw expression text (indexOf, includes, split, the regular  *)
(* expressions, the quote / parenthesis counters) is modelled character by *)
(* character.  JavaScript values are tagged records [t, v]; arrays and     *)
(* objects also carry an identity id (0 = freshly allocated).              *)
(***************************************************************************)
EXTENDS Integers, Sequences, FiniteSets, TLC

VARIABLES context, expression, result, calls

\* the texts of the parseAndEvaluate calls in progress, the innermost last
VARIABLE frames

\* App: the variables of the context builder; the URL fragment and the value
\* under the localStorage key; what the latest step handed to the browser;
\* whether App is mounted; what the page was opened with
VARIABLES variables, storage, hash, output, phase, opened

\* ContextBuilder: the scope selector and the revealed rows; toggledOn[i]
\* notes whether the user's own latest toggle of variable i was a reveal
VARIABLES currentScope, revealedSecrets, toggledOn

\* ExpressionInput: the debounce timer with what its callback captured
VARIABLE timer

app == <<variables, storage, hash, output, phase, opened, currentScope, revealedSecrets, toggledOn, timer>>

vars == <<context, expression, result, calls, frames, app>>

----------------------------------------------------------------------------
(* JavaScript string primitives over text                                  *)

Min(S) == CHOOSE m \in S : \A n \in S : m <= n

\* s.substring(from, to) with 0-based from (inclusive) and to (exclusive)
substring(s, from, to) == SubSeq(s, from + 1, to)

\* s.slice(from) / s.substring(from)
sliceFrom(s, from) == SubSeq(s, from + 1, Len(s))

\* s[i], 0-based; the empty text stands for an out-of-range read (undefined)
charAt(s, i) == IF i >= 0 /\ i < Len(s) THEN s[i + 1] ELSE ""

startsWith(s, p) == Len(p) <= Len(s) /\ SubSeq(s, 1, Len(p)) = p

endsWith(s, p) == Len(p) <= Len(s) /\ SubSeq(s, Len(s) - Len(p) + 1, Len(s)) = p

\* s.indexOf(p): 0-based position of the first occurrence, -1 when absent
indexOf(s, p) ==
  LET at == {i \in 0..(Len(s) - Len(p)) : SubSeq(s, i + 1, i + Len(p)) = p}
  IN  IF at = {} THEN -1 ELSE Min(at)

includes(s, p) == indexOf(s, p) # -1

IsSpace(c) == c = " "

\* s.trim()
trim(s) ==
  LET keep == {i \in 1..Len(s) : ~IsSpace(s[i])}
  IN  IF keep = {} THEN <<>>
      ELSE SubSeq(s, Min(keep), CHOOSE m \in keep : \A n \in keep : n <= m)

\* s.split(sep) for a one-character separator
RECURSIVE split(_, _)
split(s, sep) ==
  LET i == indexOf(s, <<sep>>)
  IN  IF i = -1 THEN <<s>>
      ELSE <<substring(s, 0, i)>> \o split(sliceFrom(s, i + 1), sep)

\* s.replace(new RegExp(pat, 'g'), rep) for a pattern that is literal text
RECURSIVE replaceAll(_, _, _)
replaceAll(s, pat, rep) ==
  LET i == indexOf(s, pat)
  IN  IF i = -1 THEN s
      ELSE substring(s, 0, i) \o rep \o replaceAll(sliceFrom(s, i + Len(pat)), pat, rep)

\* parts.join(sep)
RECURSIVE joinText(_, _)
joinText(parts, sep) ==
  IF parts = <<>> THEN <<>>
  ELSE IF Len(parts) = 1 THEN parts[1]
  ELSE parts[1] \o sep \o joinText(Tail(parts), sep)

Digits == <<"0", "1", "2", "3", "4", "5", "6", "7", "8", "9">>

IsDigit(c) == \E i \in 1..10 : Digits[i] = c

DigitVal(c) == (CHOOSE i \in 1..10 : Digits[i] = c) - 1

AllDigits(s) == s # <<>> /\ \A i \in 1..Len(s) : IsDigit(s[i])

RECURSIVE TextToNat(_)
TextToNat(s) ==
  IF s = <<>> THEN 0 ELSE 10 * TextToNat(SubSeq(s, 1, Len(s) - 1)) + DigitVal(s[Len(s)])

RECURSIVE NatToText(_)
NatToText(n) ==
  IF n < 10 THEN <<Digits[n + 1]>> ELSE NatToText(n \div 10) \o <<Digits[(n % 10) + 1]>>

IntToText(n) == IF n < 0 THEN <<"-">> \o NatToText(0 - n) ELSE NatToText(n)

----------------------------------------------------------------------------
(* JavaScript values                                                       *)

Str(s) == [t |-> "string", v |-> s]
Bool(b) == [t |-> "boolean", v |-> b]
Num(n) == [t |-> "number", v |-> n]
NaN == [t |-> "NaN", v |-> 0]
Null == [t |-> "null", v |-> 0]
Undefined == [t |-> "undefined", v |-> 0]
\* an array: v is the sequence of its elements
Arr(id, elems) == [t |-> "array", v |-> elems, id |-> id]
\* an object: v is the sequence of its <<key, value>> pairs in insertion order
Obj(id, pairs) == [t |-> "object", v |-> pairs, id |-> id]

\* typeof value
typeof(val) ==
  CASE val.t = "string" -> "string"
    [] val.t = "boolean" -> "boolean"
    [] val.t \in {"number", "NaN"} -> "number"
    [] val.t = "undefined" -> "undefined"
    [] OTHER -> "object"

\* String(value)
RECURSIVE String(_)
String(val) ==
  CASE val.t = "string" -> val.v
    [] val.t = "boolean" -> IF val.v THEN <<"t", "r", "u", "e">> ELSE <<"f", "a", "l", "s", "e">>
    [] val.t = "number" -> IntToText(val.v)
    [] val.t = "NaN" -> <<"N", "a", "N">>
    [] val.t = "null" -> <<"n", "u", "l", "l">>
    [] val.t = "undefined" -> <<"u", "n", "d", "e", "f", "i", "n", "e", "d">>
    [] val.t = "array" ->
         joinText([i \in 1..Len(val.v) |->
                     IF val.v[i].t \in {"null", "undefined"} THEN <<>> ELSE String(val.v[i])],
                  <<",">>)
    [] OTHER -> <<"[", "o", "b", "j", "e", "c", "t", " ", "O", "b", "j", "e", "c", "t", "]">>

\* Number(text): the numeric value of a string (integers only in this model)
StringToNumber(s) ==
  LET body == trim(s)
  IN  IF body = <<>> THEN Num(0)
      ELSE IF AllDigits(body) THEN Num(TextToNat(body))
      ELSE IF body[1] = "-" /\ AllDigits(Tail(body)) THEN Num(0 - TextToNat(Tail(body)))
      ELSE IF body[1] = "+" /\ AllDigits(Tail(body)) THEN Num(TextToNat(Tail(body)))
      ELSE NaN

\* Number(value)
Number(val) ==
  CASE val.t \in {"number", "NaN"} -> val
    [] val.t = "boolean" -> IF val.v THEN Num(1) ELSE Num(0)
    [] val.t = "null" -> Num(0)
    [] val.t = "undefined" -> NaN
    [] val.t = "string" -> StringToNumber(val.v)
    [] OTHER -> StringToNumber(String(val))

\* left == right (abstract equality)
RECURSIVE LooseEquals(_, _)
LooseEquals(l, r) ==
  LET isNum(x) == x.t \in {"number", "NaN"}
      isNullish(x) == x.t \in {"null", "undefined"}
      isRef(x) == x.t \in {"array", "object"}
  IN  CASE isNullish(l) \/ isNullish(r) -> isNullish(l) /\ isNullish(r)
        [] isRef(l) /\ isRef(r) -> l.id # 0 /\ l.id = r.id
        [] isRef(l) -> LooseEquals(Str(String(l)), r)
        [] isRef(r) -> LooseEquals(l, Str(String(r)))
        [] isNum(l) /\ isNum(r) -> l.t = "number" /\ r.t = "number" /\ l.v = r.v
        [] l.t = "boolean" /\ r.t = "boolean" -> l.v = r.v
        [] l.t = "string" /\ r.t = "string" -> l.v = r.v
        [] l.t = "boolean" -> LooseEquals(Number(l), r)
        [] r.t = "boolean" -> LooseEquals(l, Number(r))
        [] OTHER -> LooseEquals(Number(l), Number(r))

\* Number(a) < Number(b); a comparison with NaN is false
NumLess(a, b) == a.t = "number" /\ b.t = "number" /\ a.v < b.v
NumLessEq(a, b) == a.t = "number" /\ b.t = "number" /\ a.v <= b.v

----------------------------------------------------------------------------
(* JSON.stringify and JSON.parse                                           *)
(* Numbers are integers; string escapes are \" \\ and \/ (the texts the    *)
(* model feeds to the evaluator use no others).                            *)

RECURSIVE EscapeJSON(_)
EscapeJSON(s) ==
  IF s = <<>> THEN <<>>
  ELSE (IF s[1] \in {"\"", "\\"} THEN <<"\\", s[1]>> ELSE <<s[1]>>) \o EscapeJSON(Tail(s))

\* the pairs of an object that JSON.stringify writes (undefined values are skipped)
RECURSIVE DefinedPairs(_)
DefinedPairs(pairs) ==
  IF pairs = <<>> THEN <<>>
  ELSE (IF pairs[1][2].t = "undefined" THEN <<>> ELSE <<pairs[1]>>) \o DefinedPairs(Tail(pairs))

RECURSIVE JSONText(_)
JSONText(val) ==
  CASE val.t = "string" -> <<"\"">> \o EscapeJSON(val.v) \o <<"\"">>
    [] val.t = "boolean" -> String(val)
    [] val.t = "number" -> IntToText(val.v)
    [] val.t \in {"NaN", "null", "undefined"} -> <<"n", "u", "l", "l">>
    [] val.t = "array" ->
         <<"[">> \o joinText([i \in 1..Len(val.v) |-> JSONText(val.v[i])], <<",">>) \o <<"]">>
    [] OTHER ->
         LET ps == DefinedPairs(val.v)
         IN  <<"{">>
             \o joinText([i \in 1..Len(ps) |->
                            <<"\"">> \o EscapeJSON(ps[i][1]) \o <<"\"", ":">> \o JSONText(ps[i][2])],
                         <<",">>)
             \o <<"}">>

\* JSON.stringify(value): a string, or undefined for an undefined value
JSON_stringify(val) == IF val.t = "undefined" THEN Undefined ELSE Str(JSONText(val))

\* first position >= i (1-based) that holds no white space
RECURSIVE SkipWs(_, _)
SkipWs(s, i) == IF i <= Len(s) /\ IsSpace(s[i]) THEN SkipWs(s, i + 1) ELSE i

\* end (exclusive) of the run of digits that starts at i
RECURSIVE DigitsEnd(_, _)
DigitsEnd(s, i) == IF i <= Len(s) /\ IsDigit(s[i]) THEN DigitsEnd(s, i + 1) ELSE i

JSONFail == [ok |-> FALSE, val |-> Null, i |-> 0]
JSONOk(val, i) == [ok |-> TRUE, val |-> val, i |-> i]

\* the characters of a JSON string whose opening quote precedes position i
RECURSIVE JSONStringBody(_, _, _)
JSONStringBody(s, i, acc) ==
  IF i > Len(s) THEN JSONFail
  ELSE IF s[i] = "\"" THEN JSONOk(Str(acc), i + 1)
  ELSE IF s[i] = "\\" THEN
         IF i + 1 <= Len(s) /\ s[i + 1] \in {"\"", "\\", "/"}
         THEN JSONStringBody(s, i + 2, Append(acc, s[i + 1]))
         ELSE JSONFail
  ELSE JSONStringBody(s, i + 1, Append(acc, s[i]))

\* an array index written as a canonical property key
IsIndexKey(key) == AllDigits(key) /\ (Len(key) = 1 \/ key[1] # "0")

\* obj[key] = val on the pair list of an object: the own keys of an object
\* are enumerated with the integer keys first, in ascending order, and the
\* other keys after them in the order of their creation
SetPair(pairs, key, val) ==
  LET before(k) == IsIndexKey(pairs[k][1]) /\ TextToNat(pairs[k][1]) < TextToNat(key)
      n == Cardinality({k \in 1..Len(pairs) : before(k)})
  IN  IF \E k \in 1..Len(pairs) : pairs[k][1] = key
      THEN [k \in 1..Len(pairs) |-> IF pairs[k][1] = key THEN <<key, val>> ELSE pairs[k]]
      ELSE IF IsIndexKey(key)
           THEN SubSeq(pairs, 1, n) \o <<<<key, val>>>> \o SubSeq(pairs, n + 1, Len(pairs))
           ELSE Append(pairs, <<key, val>>)

RECURSIVE JSONValue(_, _)
RECURSIVE JSONElements(_, _, _)
RECURSIVE JSONMembers(_, _, _)

\* the JSON value that starts at position i (white space already skipped)
JSONValue(s, i) ==
  LET lit(w) == i + Len(w) - 1 <= Len(s) /\ SubSeq(s, i, i + Len(w) - 1) = w
      numAt == IF s[i] = "-" THEN i + 1 ELSE i
      numEnd == DigitsEnd(s, numAt)
  IN  IF i > Len(s) THEN JSONFail
      ELSE IF s[i] = "\"" THEN JSONStringBody(s, i + 1, <<>>)
      ELSE IF s[i] = "[" THEN
             IF SkipWs(s, i + 1) <= Len(s) /\ s[SkipWs(s, i + 1)] = "]"
             THEN JSONOk(Arr(0, <<>>), SkipWs(s, i + 1) + 1)
             ELSE JSONElements(s, SkipWs(s, i + 1), <<>>)
      ELSE IF s[i] = "{" THEN
             IF SkipWs(s, i + 1) <= Len(s) /\ s[SkipWs(s, i + 1)] = "}"
             THEN JSONOk(Obj(0, <<>>), SkipWs(s, i + 1) + 1)
             ELSE JSONMembers(s, SkipWs(s, i + 1), <<>>)
      ELSE IF lit(<<"t", "r", "u", "e">>) THEN JSONOk(Bool(TRUE), i + 4)
      ELSE IF lit(<<"f", "a", "l", "s", "e">>) THEN JSONOk(Bool(FALSE), i + 5)
      ELSE IF lit(<<"n", "u", "l", "l">>) THEN JSONOk(Null, i + 4)
      ELSE IF numEnd > numAt
              /\ (numEnd - numAt = 1 \/ s[numAt] # "0")
              /\ (numEnd > Len(s) \/ s[numEnd] \notin {".", "e", "E"})
           THEN JSONOk(StringToNumber(SubSeq(s, i, numEnd - 1)), numEnd)
      ELSE JSONFail

\* the elements of an array from position i up to the closing bracket
JSONElements(s, i, acc) ==
  LET e == JSONValue(s, i)
      j == SkipWs(s, e.i)
  IN  IF ~e.ok \/ j > Len(s) THEN JSONFail
      ELSE IF s[j] = "]" THEN JSONOk(Arr(0, Append(acc, e.val)), j + 1)
      ELSE IF s[j] = "," THEN JSONElements(s, SkipWs(s, j + 1), Append(acc, e.val))
      ELSE JSONFail

\* the members of an object from position i up to the closing brace
JSONMembers(s, i, acc) ==
  LET k == IF i <= Len(s) /\ s[i] = "\"" THEN JSONStringBody(s, i + 1, <<>>) ELSE JSONFail
      c == SkipWs(s, k.i)
      e == JSONValue(s, SkipWs(s, c + 1))
      j == SkipWs(s, e.i)
  IN  IF ~k.ok \/ c > Len(s) \/ s[c] # ":" THEN JSONFail
      ELSE IF ~e.ok \/ j > Len(s) THEN JSONFail
      ELSE IF s[j] = "}" THEN JSONOk(Obj(0, SetPair(acc, k.val.v, e.val)), j + 1)
      ELSE IF s[j] = "," THEN JSONMembers(s, SkipWs(s, j + 1), SetPair(acc, k.val.v, e.val))
      ELSE JSONFail

\* JSON.parse(text): ok is FALSE where JSON.parse throws a SyntaxError
JSON_parse(s) ==
  LET r == JSONValue(s, SkipWs(s, 1))
  IN  IF r.ok /\ SkipWs(s, r.i) = Len(s) + 1 THEN r ELSE JSONFail

----------------------------------------------------------------------------
(* ExpressionEvaluator: scanners over the raw expression text              *)

AND == <<"&", "&">>
OR == <<"|", "|">>

FunctionNames ==
  {<<"c", "o", "n", "t", "a", "i", "n", "s">>, <<"s", "t", "a", "r", "t", "s", "W", "i", "t", "h">>, <<"e", "n", "d", "s", "W", "i", "t", "h">>, <<"f", "o", "r", "m", "a", "t">>, <<"t", "o", "J", "S", "O", "N">>, <<"f", "r", "o", "m", "J", "S", "O", "N">>,
   <<"j", "o", "i", "n">>, <<"s", "u", "c", "c", "e", "s", "s">>, <<"f", "a", "i", "l", "u", "r", "e">>, <<"a", "l", "w", "a", "y", "s">>, <<"c", "a", "n", "c", "e", "l", "l", "e", "d">>, <<"h", "a", "s", "h", "F", "i", "l", "e", "s">>}

StatusFunctionNames == {<<"s", "u", "c", "c", "e", "s", "s">>, <<"f", "a", "i", "l", "u", "r", "e">>, <<"a", "l", "w", "a", "y", "s">>, <<"c", "a", "n", "c", "e", "l", "l", "e", "d">>}

\* the names accepted by the context-root test of parseAndEvaluate
RootNames ==
  {<<"g", "i", "t", "h", "u", "b">>, <<"e", "n", "v">>, <<"v", "a", "r", "s">>, <<"s", "e", "c", "r", "e", "t", "s">>, <<"i", "n", "p", "u", "t", "s">>, <<"n", "e", "e", "d", "s">>, <<"r", "u", "n", "n", "e", "r">>,
   <<"m", "a", "t", "r", "i", "x">>, <<"s", "t", "r", "a", "t", "e", "g", "y">>, <<"j", "o", "b">>, <<"s", "t", "e", "p", "s">>}

\* the state of the quote / parenthesis counters after reading the character at i
ScanStep(e, i, st) ==
  LET char == e[i + 1]
  IN  IF ~st.inString THEN
        IF char = "\"" \/ char = "'" THEN [st EXCEPT !.inString = TRUE, !.stringChar = char]
        ELSE IF char = "(" THEN [st EXCEPT !.parenCount = @ + 1]
        ELSE IF char = ")" THEN [st EXCEPT !.parenCount = @ - 1]
        ELSE st
      ELSE IF char = st.stringChar /\ (i = 0 \/ e[i] # "\\")
           THEN [st EXCEPT !.inString = FALSE]
           ELSE st

ScanStart == [inString |-> FALSE, stringChar |-> "", parenCount |-> 0]

\* the character at i is read outside strings, is no quote or parenthesis, at depth 0
AtTopLevel(e, i, st) ==
  ~st.inString /\ e[i + 1] \notin {"\"", "'", "(", ")"} /\ st.parenCount = 0

RECURSIVE containsOperatorLoop(_, _, _, _)
containsOperatorLoop(e, operator, i, st) ==
  IF i >= Len(e) - 1 THEN FALSE
  ELSE IF AtTopLevel(e, i, st) /\ e[i + 1] = operator[1] /\ e[i + 2] = operator[2] THEN TRUE
  ELSE containsOperatorLoop(e, operator, i + 1, ScanStep(e, i, st))

containsOperatorOutsideParens(e, operator) == containsOperatorLoop(e, operator, 0, ScanStart)

RECURSIVE findLastOperatorLoop(_, _, _, _, _)
findLastOperatorLoop(e, operator, i, st, lastIndex) ==
  IF i >= Len(e) - 1 THEN lastIndex
  ELSE findLastOperatorLoop(e, operator, i + 1, ScanStep(e, i, st),
         IF AtTopLevel(e, i, st) /\ e[i + 1] = operator[1] /\ e[i + 2] = operator[2]
         THEN i ELSE lastIndex)

findLastOperatorIndex(e, operator) == findLastOperatorLoop(e, operator, 0, ScanStart, -1)

RECURSIVE hasOperatorsLoop(_, _, _)
hasOperatorsLoop(e, i, st) ==
  LET char == e[i + 1]
      nextChar == e[i + 2]
  IN  IF i >= Len(e) - 1 THEN
        \* the single-character operators at the very end
        Len(e) > 0 /\ ~st.inString /\ st.parenCount = 0 /\ e[Len(e)] \in {">", "<"}
      ELSE IF AtTopLevel(e, i, st)
              /\ \/ char = "=" /\ nextChar = "="
                 \/ char = "!" /\ nextChar = "="
                 \/ char = ">" /\ nextChar = "="
                 \/ char = "<" /\ nextChar = "="
                 \/ char = ">"
                 \/ char = "<"
                 \/ char = "&" /\ nextChar = "&"
                 \/ char = "|" /\ nextChar = "|"
                 \/ char = "!" /\ i > 0 /\ e[i] # "="
           THEN TRUE
      ELSE hasOperatorsLoop(e, i + 1, ScanStep(e, i, st))

hasOperators(e) == hasOperatorsLoop(e, 0, ScanStart)

\* /^(contains|...|hashFiles)\s*\(.+\)/.test(expression.trim())
isFunction(e) ==
  LET t == trim(e)
  IN  \E name \in FunctionNames :
        /\ startsWith(t, name)
        /\ LET open == SkipWs(t, Len(name) + 1)
           IN  /\ open <= Len(t)
               /\ t[open] = "("
               /\ \E close \in (open + 2)..Len(t) : t[close] = ")"

RECURSIVE parseArgumentsLoop(_, _, _, _, _, _, _)
parseArgumentsLoop(argsString, i, args, current, depth, inString, stringChar) ==
  LET char == argsString[i + 1]
  IN  IF i >= Len(argsString) THEN
        IF trim(current) # <<>> THEN Append(args, trim(current)) ELSE args
      ELSE IF ~inString THEN
        IF char = "\"" \/ char = "'" THEN
          parseArgumentsLoop(argsString, i + 1, args, Append(current, char), depth, TRUE, char)
        ELSE IF char = "(" \/ char = "[" THEN
          parseArgumentsLoop(argsString, i + 1, args, Append(current, char), depth + 1, inString, stringChar)
        ELSE IF char = ")" \/ char = "]" THEN
          parseArgumentsLoop(argsString, i + 1, args, Append(current, char), depth - 1, inString, stringChar)
        ELSE IF char = "," /\ depth = 0 THEN
          parseArgumentsLoop(argsString, i + 1, Append(args, trim(current)), <<>>, depth, inString, stringChar)
        ELSE
          parseArgumentsLoop(argsString, i + 1, args, Append(current, char), depth, inString, stringChar)
      ELSE
        parseArgumentsLoop(argsString, i + 1, args, Append(current, char), depth,
                           ~(char = stringChar /\ charAt(argsString, i - 1) # "\\"), stringChar)

parseArguments(argsString) == parseArgumentsLoop(argsString, 0, <<>>, <<>>, 0, FALSE, "")

\* value !== falsy, as isTruthy decides it
isTruthy(val) ==
  CASE val.t = "boolean" -> val.v
    [] val.t = "string" -> val.v # <<>>
    [] val.t = "number" -> val.v # 0
    [] val.t = "NaN" -> TRUE
    [] OTHER -> val.t \notin {"null", "undefined"}

----------------------------------------------------------------------------
(* ExpressionEvaluator: results, property lookup                           *)

\* an absent error field
NoError == ""

\* a returned ExpressionResult
Return(value, type, contextHits) ==
  [thrown |-> FALSE, value |-> value, type |-> type, contextHits |-> contextHits, error |-> NoError]

\* throw new Error(message); the message stands for its fixed part
Throw(message) ==
  [thrown |-> TRUE, value |-> Null, type |-> "error", contextHits |-> <<>>, error |-> message]

\* current && typeof current === 'object'
IsObjectLike(val) == val.t \in {"object", "array"}

\* key in val, for an object or an array
HasProperty(val, key) ==
  IF val.t = "object" THEN \E k \in 1..Len(val.v) : val.v[k][1] = key
  ELSE key = <<"l", "e", "n", "g", "t", "h">> \/ (IsIndexKey(key) /\ TextToNat(key) < Len(val.v))

\* val[key]
GetProperty(val, key) ==
  IF val.t = "object" THEN
    IF HasProperty(val, key)
    THEN val.v[CHOOSE k \in 1..Len(val.v) : val.v[k][1] = key][2]
    ELSE Undefined
  ELSE IF val.t = "array" THEN
    IF key = <<"l", "e", "n", "g", "t", "h">> THEN Num(Len(val.v))
    ELSE IF HasProperty(val, key) THEN val.v[TextToNat(key) + 1]
    ELSE Undefined
  ELSE Undefined

evaluateStatusFunction(funcName) ==
  CASE funcName = <<"s", "u", "c", "c", "e", "s", "s">> -> Bool(TRUE)
    [] funcName \in {<<"f", "a", "i", "l", "u", "r", "e">>, <<"c", "a", "n", "c", "e", "l", "l", "e", "d">>} -> Bool(FALSE)
    [] funcName = <<"a", "l", "w", "a", "y", "s">> -> Bool(TRUE)
    [] OTHER -> Bool(FALSE)

\* /^name\((.+)\)$/ : whether the text matches, and the captured argument text
MatchCall(e, name) ==
  IF startsWith(e, name \o <<"(">>) /\ endsWith(e, <<")">>) /\ Len(e) >= Len(name) + 3
  THEN [matched |-> TRUE, args |-> substring(e, Len(name) + 1, Len(e) - 1)]
  ELSE [matched |-> FALSE, args |-> <<>>]

\* mutant of lowestLogicalOperator: && is looked for before ||
lowestLogicalOperator_AndFirst(e) ==
  IF containsOperatorOutsideParens(e, AND) THEN AND
  ELSE IF containsOperatorOutsideParens(e, OR) THEN OR
  ELSE <<>>

\* the logical operator parseAndEvaluate splits at, || before &&; <<>> when none
lowestLogicalOperator(e) ==
  IF containsOperatorOutsideParens(e, OR) THEN OR
  ELSE IF containsOperatorOutsideParens(e, AND) THEN AND
  ELSE <<>>

\* the comparison operator parseAndEvaluate splits at; <<>> when none
firstComparisonOperator(e) ==
  IF includes(e, <<">", "=">>) THEN <<">", "=">>
  ELSE IF includes(e, <<"<", "=">>) THEN <<"<", "=">>
  ELSE IF includes(e, <<">">>) THEN <<">">>
  ELSE IF includes(e, <<"<">>) THEN <<"<">>
  ELSE IF includes(e, <<"=", "=">>) THEN <<"=", "=">>
  ELSE IF includes(e, <<"!", "=">>) THEN <<"!", "=">>
  ELSE <<>>

\* /^-?\d+(\.\d+)?$/
IsNumberLiteral(e) ==
  LET body == IF e # <<>> /\ e[1] = "-" THEN Tail(e) ELSE e
      dot == indexOf(body, <<".">>)
  IN  IF dot = -1 THEN AllDigits(body)
      ELSE AllDigits(substring(body, 0, dot)) /\ AllDigits(sliceFrom(body, dot + 1))

\* parseFloat of a text accepted by IsNumberLiteral (a text with a fraction
\* never gets here: parseAndEvaluate treats every text with a '.' as a path)
parseFloat(e) == StringToNumber(IF includes(e, <<".">>) THEN substring(e, 0, indexOf(e, <<".">>)) ELSE e)

----------------------------------------------------------------------------
(* ExpressionEvaluator: parseAndEvaluate and its helpers                   *)

RECURSIVE parseAndEvaluate(_)
RECURSIVE evaluateComparison(_, _, _)
RECURSIVE evaluateLogicalOperation(_, _, _)
RECURSIVE evaluateContainsFunction(_, _)
RECURSIVE evaluateStringFunction(_, _)
RECURSIVE evaluateFormatFunction(_, _)
RECURSIVE formatLoop(_, _, _, _)
RECURSIVE evaluateToJSONFunction(_, _)
RECURSIVE evaluateFromJSONFunction(_, _)
RECURSIVE evaluateJoinFunction(_, _)
RECURSIVE evaluateChainedPropertyAccess(_, _)

RECURSIVE propertyAccessLoop(_, _, _, _, _)
propertyAccessLoop(parts, i, current, path, contextHits) ==
  LET part == parts[i]
      newPath == IF path # <<>> THEN path \o <<".">> \o part ELSE part
  IN  IF i > Len(parts) THEN Return(current, typeof(current), contextHits)
      ELSE IF IsObjectLike(current) /\ HasProperty(current, part)
           THEN propertyAccessLoop(parts, i + 1, GetProperty(current, part), newPath,
                                   Append(contextHits, newPath))
           ELSE Throw("Property not found in context")

evaluatePropertyAccess(e, contextHits) ==
  propertyAccessLoop(split(e, "."), 1, context, <<>>, contextHits)

evaluateComparison(e, operator, contextHits) ==
  LET operatorIndex == indexOf(e, operator)
      leftPart == trim(substring(e, 0, operatorIndex))
      rightPart == trim(sliceFrom(e, operatorIndex + Len(operator)))
      leftResult == parseAndEvaluate(leftPart)
      rightResult == parseAndEvaluate(rightPart)
      leftVal == leftResult.value
      rightVal == rightResult.value
      outcome ==
        CASE operator = <<"=", "=">> -> LooseEquals(leftVal, rightVal)
          [] operator = <<"!", "=">> -> ~LooseEquals(leftVal, rightVal)
          [] operator = <<">">> -> NumLess(Number(rightVal), Number(leftVal))
          [] operator = <<"<">> -> NumLess(Number(leftVal), Number(rightVal))
          [] operator = <<">", "=">> -> NumLessEq(Number(rightVal), Number(leftVal))
          [] operator = <<"<", "=">> -> NumLessEq(Number(leftVal), Number(rightVal))
  IN  IF operatorIndex = -1 THEN Throw("Operator not found in expression")
      ELSE IF leftPart = <<>> \/ rightPart = <<>> THEN Throw("Invalid comparison expression")
      ELSE IF leftResult.thrown THEN leftResult
      ELSE IF rightResult.thrown THEN rightResult
      ELSE IF leftResult.error # NoError THEN leftResult
      ELSE IF rightResult.error # NoError THEN rightResult
      ELSE Return(Bool(outcome), "boolean",
                  contextHits \o leftResult.contextHits \o rightResult.contextHits)

evaluateLogicalOperation(e, operator, contextHits) ==
  LET operatorIndex == findLastOperatorIndex(e, operator)
      leftPart == trim(substring(e, 0, operatorIndex))
      rightPart == trim(sliceFrom(e, operatorIndex + Len(operator)))
      leftResult == parseAndEvaluate(leftPart)
      rightResult == parseAndEvaluate(rightPart)
      leftHits == contextHits \o leftResult.contextHits
  IN  IF operatorIndex = -1 THEN Throw("Operator not found in expression")
      ELSE IF leftPart = <<>> \/ rightPart = <<>> THEN Throw("Invalid logical expression")
      ELSE IF leftResult.thrown THEN leftResult
      ELSE IF leftResult.error # NoError THEN leftResult
      ELSE IF operator = AND /\ ~isTruthy(leftResult.value)
           THEN Return(leftResult.value, leftResult.type, leftHits)
      ELSE IF operator = OR /\ isTruthy(leftResult.value)
           THEN Return(leftResult.value, leftResult.type, leftHits)
      ELSE IF rightResult.thrown THEN rightResult
      ELSE IF rightResult.error # NoError THEN rightResult
      ELSE Return(rightResult.value, rightResult.type, leftHits \o rightResult.contextHits)

evaluateContainsFunction(e, contextHits) ==
  LET match == MatchCall(e, <<"c", "o", "n", "t", "a", "i", "n", "s">>)
      args == parseArguments(match.args)
      searchInResult == parseAndEvaluate(trim(args[1]))
      searchForResult == parseAndEvaluate(trim(args[2]))
  IN  IF ~match.matched THEN Throw("Invalid contains() function")
      ELSE IF Len(args) # 2 THEN Throw("contains() requires exactly 2 arguments")
      ELSE IF searchInResult.thrown THEN searchInResult
      ELSE IF searchForResult.thrown THEN searchForResult
      ELSE Return(Bool(includes(String(searchInResult.value), String(searchForResult.value))),
                  "boolean",
                  contextHits \o searchInResult.contextHits \o searchForResult.contextHits)

evaluateStringFunction(e, contextHits) ==
  LET funcName == IF startsWith(e, <<"s", "t", "a", "r", "t", "s", "W", "i", "t", "h">>) THEN <<"s", "t", "a", "r", "t", "s", "W", "i", "t", "h">> ELSE <<"e", "n", "d", "s", "W", "i", "t", "h">>
      funcMatch == MatchCall(e, funcName)
      args == parseArguments(funcMatch.args)
      stringResult == parseAndEvaluate(trim(args[1]))
      searchResult == parseAndEvaluate(trim(args[2]))
      str == String(stringResult.value)
      search == String(searchResult.value)
  IN  IF ~funcMatch.matched THEN Throw("Invalid string function")
      ELSE IF Len(args) # 2 THEN Throw("string function requires exactly 2 arguments")
      ELSE IF stringResult.thrown THEN stringResult
      ELSE IF searchResult.thrown THEN searchResult
      ELSE Return(Bool(IF funcName = <<"s", "t", "a", "r", "t", "s", "W", "i", "t", "h">> THEN startsWith(str, search)
                                                     ELSE endsWith(str, search)),
                  "boolean",
                  contextHits \o stringResult.contextHits \o searchResult.contextHits)

\* the loop of evaluateFormatFunction over args[i], i >= 1 (0-based)
formatLoop(args, i, formatString, contextHits) ==
  LET argResult == parseAndEvaluate(args[i + 1])
      placeholder == <<"{">> \o NatToText(i - 1) \o <<"}">>
  IN  IF i >= Len(args) THEN Return(Str(formatString), "string", contextHits)
      ELSE IF argResult.thrown THEN argResult
      ELSE formatLoop(args, i + 1,
                      replaceAll(formatString, placeholder, String(argResult.value)),
                      contextHits \o argResult.contextHits)

evaluateFormatFunction(e, contextHits) ==
  LET match == MatchCall(e, <<"f", "o", "r", "m", "a", "t">>)
      args == parseArguments(match.args)
      formatResult == parseAndEvaluate(args[1])
  IN  IF ~match.matched THEN Throw("Invalid format() function")
      ELSE IF Len(args) = 0 THEN Throw("format() requires at least one argument")
      ELSE IF formatResult.thrown THEN formatResult
      ELSE formatLoop(args, 1, String(formatResult.value),
                      contextHits \o formatResult.contextHits)

evaluateToJSONFunction(e, contextHits) ==
  LET match == MatchCall(e, <<"t", "o", "J", "S", "O", "N">>)
      argResult == parseAndEvaluate(trim(match.args))
  IN  IF ~match.matched THEN Throw("Invalid toJSON() function")
      ELSE IF argResult.thrown THEN argResult
      ELSE Return(JSON_stringify(argResult.value), "string",
                  contextHits \o argResult.contextHits)

evaluateFromJSONFunction(e, contextHits) ==
  LET match == MatchCall(e, <<"f", "r", "o", "m", "J", "S", "O", "N">>)
      argResult == parseAndEvaluate(trim(match.args))
      parsed == JSON_parse(String(argResult.value))
  IN  IF ~match.matched THEN Throw("Invalid fromJSON() function")
      ELSE IF argResult.thrown THEN argResult
      ELSE IF ~parsed.ok THEN Throw("Invalid JSON in fromJSON()")
      ELSE Return(parsed.val, typeof(parsed.val), contextHits \o argResult.contextHits)

evaluateJoinFunction(e, contextHits) ==
  LET match == MatchCall(e, <<"j", "o", "i", "n">>)
      args == parseArguments(match.args)
      arrayResult == parseAndEvaluate(trim(args[1]))
      sepResult == parseAndEvaluate(trim(args[2]))
      separator == IF Len(args) = 2 THEN String(sepResult.value) ELSE <<",">>
      array == IF arrayResult.value.t = "array" THEN arrayResult.value.v
               ELSE IF arrayResult.value.t \notin {"null", "undefined"} THEN <<arrayResult.value>>
               ELSE <<>>
      hits == contextHits \o arrayResult.contextHits
              \o (IF Len(args) = 2 THEN sepResult.contextHits ELSE <<>>)
  IN  IF ~match.matched THEN Throw("Invalid join() function")
      ELSE IF Len(args) < 1 \/ Len(args) > 2 THEN Throw("join() requires 1 or 2 arguments")
      ELSE IF arrayResult.thrown THEN arrayResult
      ELSE IF Len(args) = 2 /\ sepResult.thrown THEN sepResult
      ELSE Return(Str(joinText([k \in 1..Len(array) |-> String(array[k])], separator)),
                  "string", hits)

\* the loop over propertyPath of evaluateChainedPropertyAccess
RECURSIVE chainedLoop(_, _, _, _, _)
chainedLoop(propertyPath, i, current, currentPath, contextHits) ==
  LET prop == propertyPath[i]
      newPath == currentPath \o <<".">> \o prop
  IN  IF i > Len(propertyPath) THEN Return(current, typeof(current), contextHits)
      ELSE IF IsObjectLike(current) /\ HasProperty(current, prop)
           THEN chainedLoop(propertyPath, i + 1, GetProperty(current, prop), newPath,
                            Append(contextHits, newPath))
           ELSE Throw("Property not found in result")

\* 0-based index of the first '.' at parenthesis depth 0, -1 when there is none
RECURSIVE chainedSplitIndex(_, _, _)
chainedSplitIndex(e, i, parenCount) ==
  LET depth == IF e[i + 1] = "(" THEN parenCount + 1
               ELSE IF e[i + 1] = ")" THEN parenCount - 1
               ELSE parenCount
  IN  IF i >= Len(e) THEN -1
      ELSE IF e[i + 1] = "." /\ depth = 0 THEN i
      ELSE chainedSplitIndex(e, i + 1, depth)

evaluateChainedPropertyAccess(e, contextHits) ==
  LET splitIndex == chainedSplitIndex(e, 0, 0)
      functionPart == substring(e, 0, splitIndex)
      propertyPart == sliceFrom(e, splitIndex + 1)
      functionResult == parseAndEvaluate(functionPart)
  IN  IF splitIndex = -1 THEN
        \* parseAndEvaluate(expression) comes back here with the same text:
        \* the recursion ends with the engine's RangeError
        Throw("Maximum call stack size exceeded")
      ELSE IF functionResult.thrown THEN functionResult
      ELSE IF functionResult.error # NoError THEN functionResult
      ELSE chainedLoop(split(propertyPart, "."), 1, functionResult.value, <<"r", "e", "s", "u", "l", "t">>,
                       contextHits \o functionResult.contextHits)

parseAndEvaluate(e) ==
  LET contextHits == <<>>
      funcName == substring(e, 0, Len(e) - 2)
      innerResult == parseAndEvaluate(trim(sliceFrom(e, 1)))
  IN  IF endsWith(e, <<"(", ")">>) /\ funcName \in StatusFunctionNames THEN
        Return(evaluateStatusFunction(funcName), "boolean", <<<<"f", "u", "n", "c", "t", "i", "o", "n", "s", ".">> \o funcName>>)
      ELSE IF startsWith(e, <<"c", "o", "n", "t", "a", "i", "n", "s", "(">>) THEN evaluateContainsFunction(e, contextHits)
      ELSE IF startsWith(e, <<"s", "t", "a", "r", "t", "s", "W", "i", "t", "h", "(">>) \/ startsWith(e, <<"e", "n", "d", "s", "W", "i", "t", "h", "(">>)
           THEN evaluateStringFunction(e, contextHits)
      ELSE IF startsWith(e, <<"f", "o", "r", "m", "a", "t", "(">>) THEN evaluateFormatFunction(e, contextHits)
      ELSE IF startsWith(e, <<"t", "o", "J", "S", "O", "N", "(">>) THEN evaluateToJSONFunction(e, contextHits)
      ELSE IF startsWith(e, <<"f", "r", "o", "m", "J", "S", "O", "N", "(">>) THEN evaluateFromJSONFunction(e, contextHits)
      ELSE IF startsWith(e, <<"j", "o", "i", "n", "(">>) THEN evaluateJoinFunction(e, contextHits)
      ELSE IF startsWith(e, <<"h", "a", "s", "h", "F", "i", "l", "e", "s", "(">>) THEN
        [thrown |-> FALSE, value |-> Null, type |-> "error", contextHits |-> <<>>,
         error |-> "hashFiles() requires workspace files (not available in this demo)"]
      ELSE IF lowestLogicalOperator(e) # <<>>
           THEN evaluateLogicalOperation(e, lowestLogicalOperator(e), contextHits)
      ELSE IF startsWith(e, <<"!">>) /\ ~includes(e, <<"!", "=">>) THEN
        IF innerResult.thrown THEN innerResult
        ELSE Return(Bool(~isTruthy(innerResult.value)), "boolean",
                    contextHits \o innerResult.contextHits)
      ELSE IF firstComparisonOperator(e) # <<>>
           THEN evaluateComparison(e, firstComparisonOperator(e), contextHits)
      ELSE IF includes(e, <<".">>) /\ ~isFunction(e) /\ ~hasOperators(e)
           THEN evaluatePropertyAccess(e, contextHits)
      ELSE IF includes(e, <<".">>) /\ isFunction(e) /\ ~hasOperators(e)
           THEN evaluateChainedPropertyAccess(e, contextHits)
      ELSE IF (startsWith(e, <<"'">>) /\ endsWith(e, <<"'">>))
              \/ (startsWith(e, <<"\"">>) /\ endsWith(e, <<"\"">>))
           THEN Return(Str(substring(e, 1, Len(e) - 1)), "string", <<>>)
      ELSE IF e = <<"t", "r", "u", "e">> \/ e = <<"f", "a", "l", "s", "e">> THEN Return(Bool(e = <<"t", "r", "u", "e">>), "boolean", <<>>)
      ELSE IF IsNumberLiteral(e) THEN Return(parseFloat(e), "number", <<>>)
      ELSE IF e \in RootNames THEN
        Return(GetProperty(context, e), typeof(GetProperty(context, e)), Append(contextHits, e))
      ELSE Throw("Unable to parse expression")

\* expression.replace(/^\$\{\{\s*/, '').replace(/\s*\}\}$/, '').trim()
cleanExpression(text) ==
  LET open == IF startsWith(text, <<"$", "{", "{">>) THEN SubSeq(text, SkipWs(text, 4), Len(text)) ELSE text
      close == IF endsWith(open, <<"}", "}">>) THEN substring(open, 0, Len(open) - 2) ELSE open
      \* \s*\}\}$ also takes the white space before the braces
      RECURSIVE dropTrailingWs(_)
      dropTrailingWs(s) == IF s # <<>> /\ IsSpace(s[Len(s)])
                           THEN dropTrailingWs(SubSeq(s, 1, Len(s) - 1)) ELSE s
  IN  trim(IF endsWith(open, <<"}", "}">>) THEN dropTrailingWs(close) ELSE open)

\* mutant of evaluateExpression: the catch block reports the message but
\* leaves value and type as those of an absent value
evaluateExpression_UntypedFailure(text) ==
  LET clean == cleanExpression(text)
      r == IF clean = <<>> THEN Throw("Empty expression") ELSE parseAndEvaluate(clean)
  IN  IF r.thrown
      THEN [value |-> Undefined, type |-> "undefined", contextHits |-> <<>>, error |-> r.error,
            success |-> FALSE]
      ELSE [value |-> r.value, type |-> r.type, contextHits |-> r.contextHits,
            error |-> r.error, success |-> TRUE]

\* evaluateExpression(expression): the ExpressionResult handed to the caller
evaluateExpression(text) ==
  LET clean == cleanExpression(text)
      r == IF clean = <<>> THEN Throw("Empty expression") ELSE parseAndEvaluate(clean)
  IN  IF r.thrown
      THEN [value |-> Null, type |-> "error", contextHits |-> <<>>, error |-> r.error,
            success |-> FALSE]
      ELSE [value |-> r.value, type |-> r.type, contextHits |-> r.contextHits,
            error |-> r.error, success |-> TRUE]

----------------------------------------------------------------------------
(* The context snapshot handed to the constructor                          *)

\* an EvaluationContext with the nine roots; a and b are the values of env.A, env.B
Snapshot(a, b) ==
  Obj(1, <<
    <<<<"e", "n", "v">>, Obj(2, << <<<<"A">>, Str(a)>>, <<<<"B">>, Str(b)>>, <<<<"N">>, Str(<<"4", "2">>)>> >>)>>,
    <<<<"v", "a", "r", "s">>, Obj(3, << <<<<"L">>, Str(<<"[", "\"", "x", "\"", ",", "\"", "y", "\"", "]">>)>> >>)>>,
    <<<<"s", "e", "c", "r", "e", "t", "s">>, Obj(4, <<>>)>>,
    <<<<"i", "n", "p", "u", "t", "s">>, Obj(5, <<>>)>>,
    <<<<"g", "i", "t", "h", "u", "b">>, Obj(6, << <<<<"r", "e", "f">>, Str(<<"m", "a", "i", "n">>)>>,
                           <<<<"e", "v", "e", "n", "t">>, Obj(7, << <<<<"c", "o", "m", "m", "i", "t", "s">>,
                                                   Arr(8, << Obj(9, << <<<<"m", "e", "s", "s", "a", "g", "e">>, Str(<<"m">>)>> >>) >>)>>,
                                                 <<<<"n">>, Null>> >>)>> >>)>>,
    <<<<"m", "a", "t", "r", "i", "x">>, Obj(10, << <<<<"o", "s">>, Str(<<"l", "i", "n", "u", "x">>)>> >>)>>,
    <<<<"n", "e", "e", "d", "s">>, Obj(11, <<>>)>>,
    <<<<"r", "u", "n", "n", "e", "r">>, Obj(12, << <<<<"o", "s">>, Str(<<"L", "i", "n", "u", "x">>)>> >>)>>,
    <<<<"s", "t", "r", "a", "t", "e", "g", "y">>, Obj(13, << <<<<"j", "o", "b", "_", "i", "n", "d", "e", "x">>, Num(0)>>, <<<<"f", "a", "i", "l", "_", "f", "a", "s", "t">>, Bool(TRUE)>> >>)>>
  >>)

EnvValues == {<<>>, <<"x">>}

Snapshots == {Snapshot(a, b) : a \in EnvValues, b \in EnvValues}

\* no evaluation has returned yet
NoResult ==
  [value |-> Null, type |-> "pending", contextHits |-> <<>>, error |-> NoError, success |-> FALSE]

----------------------------------------------------------------------------
(* The expressions handed to evaluateExpression                            *)

\* number of operands of OperandPool the expressions are built from
NumOperands == 5

\* context property paths and literals (env.M is a property the snapshots lack)
OperandPool ==
  <<<<"e", "n", "v", ".", "A">>, <<"'", "x", "'">>, <<"f", "a", "l", "s", "e">>, <<"e", "n", "v", ".", "M">>, <<"'", "|", "|", "'">>, <<"0">>, <<"e", "n", "v", ".", "B">>, <<"t", "r", "u", "e">>>>

Operands == {OperandPool[i] : i \in 1..NumOperands}

EQ == <<" ", "=", "=", " ">>
NE == <<" ", "!", "=", " ">>
SpAND == <<" ", "&", "&", " ">>
SpOR == <<" ", "|", "|", " ">>

GE == <<" ", ">", "=", " ">>
LT == <<" ", "<", " ">>

\* the comparison operators on either side of the logical operator
ComparisonOperatorPairs == {<<EQ, EQ>>, <<NE, GE>>, <<LT, NE>>}

\* a op1 b  lop  c op2 d, for comparisons around one logical operator
ComparisonPairCases ==
  {[text |-> a \o ops[1] \o b \o lop \o c \o ops[2] \o d,
    operator |-> trim(lop), left |-> a \o ops[1] \o b, right |-> c \o ops[2] \o d] :
     a \in Operands, b \in Operands, c \in Operands, d \in Operands,
     ops \in ComparisonOperatorPairs, lop \in {SpAND, SpOR}}

\* x && y || z  and  x || y && z
MixedLogicalCases ==
  {[text |-> x \o lops[1] \o y \o lops[2] \o z, andFirst |-> lops[1] = SpAND,
    x |-> x, y |-> y, z |-> z] :
     x \in Operands, y \in Operands, z \in Operands, lops \in {<<SpAND, SpOR>>, <<SpOR, SpAND>>}}

\* calls, negations and comparisons used as operands of && and ||
CallOperands ==
  {<<"c", "o", "n", "t", "a", "i", "n", "s", "(", "e", "n", "v", ".", "A", ",", " ", "'", "x", "'", ")">>, <<"s", "t", "a", "r", "t", "s", "W", "i", "t", "h", "(", "e", "n", "v", ".", "B", ",", " ", "'", "x", "'", ")">>, <<"f", "a", "i", "l", "u", "r", "e", "(", ")">>, <<"s", "u", "c", "c", "e", "s", "s", "(", ")">>,
   <<"!", "e", "n", "v", ".", "A">>, <<"e", "n", "v", ".", "B", " ", "=", "=", " ", "'", "x", "'">>}

LogicalOperands == Operands \cup CallOperands

\* a && b  and  a || b
LogicalPairCases ==
  {[text |-> a \o lop \o b, operator |-> trim(lop), a |-> a, b |-> b] :
     a \in LogicalOperands, b \in LogicalOperands, lop \in {SpAND, SpOR}}

\* c && 'X' || 'Y'
TernaryCases ==
  {[text |-> c \o <<" ", "&", "&", " ", "'", "X", "'", " ", "|", "|", " ", "'", "Y", "'">>, c |-> c] : c \in LogicalOperands}

\* right operands that raise an error or read paths under github and vars,
\* with the context paths each would record
SkippedOperands ==
  {[text |-> <<"g", "i", "t", "h", "u", "b", ".", "n", "o", "p", "e">>, paths |-> {<<"g", "i", "t", "h", "u", "b">>, <<"g", "i", "t", "h", "u", "b", ".", "n", "o", "p", "e">>}],
   [text |-> <<"f", "r", "o", "m", "J", "S", "O", "N", "(", "'", "{", "b", "a", "d", "'", ")">>, paths |-> {}],
   [text |-> <<"g", "i", "t", "h", "u", "b", ".", "r", "e", "f">>, paths |-> {<<"g", "i", "t", "h", "u", "b">>, <<"g", "i", "t", "h", "u", "b", ".", "r", "e", "f">>}],
   [text |-> <<"v", "a", "r", "s", ".", "L", " ", "=", "=", " ", "'", "q", "'">>, paths |-> {<<"v", "a", "r", "s">>, <<"v", "a", "r", "s", ".", "L">>}],
   [text |-> <<"n", "o", "s", "u", "c", "h", "(", "v", "a", "r", "s", ".", "L", ")">>, paths |-> {<<"v", "a", "r", "s">>, <<"v", "a", "r", "s", ".", "L">>}]}

\* L && X  and  L || X
ShortCircuitCases ==
  {[text |-> l \o lop \o x.text, operator |-> trim(lop), l |-> l, paths |-> x.paths] :
     l \in LogicalOperands, x \in SkippedOperands, lop \in {SpAND, SpOR}}

\* one call of each built-in that takes arguments
CallsWithArguments ==
  {<<"c", "o", "n", "t", "a", "i", "n", "s", "(", "e", "n", "v", ".", "A", ",", " ", "'", "x", "'", ")">>, <<"s", "t", "a", "r", "t", "s", "W", "i", "t", "h", "(", "e", "n", "v", ".", "A", ",", " ", "'", "x", "'", ")">>, <<"e", "n", "d", "s", "W", "i", "t", "h", "(", "e", "n", "v", ".", "A", ",", " ", "'", "x", "'", ")">>,
   <<"f", "o", "r", "m", "a", "t", "(", "'", "{", "0", "}", "'", ",", " ", "e", "n", "v", ".", "A", ")">>, <<"t", "o", "J", "S", "O", "N", "(", "e", "n", "v", ".", "A", ")">>, <<"f", "r", "o", "m", "J", "S", "O", "N", "(", "v", "a", "r", "s", ".", "L", ")">>, <<"j", "o", "i", "n", "(", "e", "n", "v", ".", "A", ",", " ", "'", ",", "'", ")">>}

\* f(...) op g  and  g op f(...), g a call, a comparison or a literal
CallOperandCases ==
  {[text |-> pair[1] \o lop \o pair[2], operator |-> trim(lop), left |-> pair[1], right |-> pair[2]] :
     pair \in UNION {{<<f, g>>, <<g, f>>} :
                       f \in CallsWithArguments,
                       g \in {<<"c", "o", "n", "t", "a", "i", "n", "s", "(", "e", "n", "v", ".", "B", ",", " ", "'", "x", "'", ")">>, <<"e", "n", "v", ".", "B", " ", "=", "=", " ", "'", "x", "'">>, <<"'", "y", "'">>}},
     lop \in {SpAND, SpOR}}

\* (E)
ParenthesizedCases ==
  {[text |-> <<"(">> \o e \o <<")">>, inner |-> e] :
     e \in Operands \cup {<<"e", "n", "v", ".", "A", " ", "=", "=", " ", "'", "x", "'">>, <<"e", "n", "v", ".", "A", " ", "|", "|", " ", "e", "n", "v", ".", "B">>}}

\* (a || b) && c
ParenthesizedOrCases ==
  {[text |-> <<"(">> \o a \o SpOR \o b \o <<")">> \o SpAND \o c, a |-> a, b |-> b, c |-> c] :
     a \in Operands, b \in Operands, c \in {<<"e", "n", "v", ".", "B">>, <<"t", "r", "u", "e">>}}

\* the characters between the quotes of the string literals
LiteralBodies ==
  {<<"a", "b", "c">>, <<"a", ".", "b">>, <<"a", ",", "b">>, <<"a", "<", "b">>, <<"a", ">", "b">>, <<"a", "=", "b">>, <<"a", "!", "b">>, <<"a", "&", "b">>, <<"a", "|", "b">>,
   <<"(", "a", ")">>, <<"[", "a", "]">>, <<"&", "&">>, <<"|", "|">>}

\* a literal alone, as both operands of ==, and as the argument of format
StringLiteralCases ==
  {[text |-> IF place = "whole" THEN q \o body \o q
             ELSE IF place = "operand" THEN q \o body \o q \o EQ \o q \o body \o q
             ELSE <<"f", "o", "r", "m", "a", "t", "(">> \o q \o body \o q \o <<")">>,
    place |-> place, body |-> body] :
     body \in LiteralBodies, q \in {<<"'">>, <<"\"">>}, place \in {"whole", "operand", "argument"}}

\* sub-expressions whose evaluation fails: a missing property, a property of
\* a string, an unknown function, malformed JSON, unparsable text
FailingOperands ==
  {<<"e", "n", "v", ".", "M">>, <<"g", "i", "t", "h", "u", "b", ".", "r", "e", "f", ".", "x">>, <<"n", "o", "s", "u", "c", "h", "(", ")">>, <<"f", "r", "o", "m", "J", "S", "O", "N", "(", "'", "{", "b", "a", "d", "'", ")">>, <<"@">>}

\* the texts around a failing sub-expression that is evaluated: before and after the hole
FailureContexts ==
  {<<<<>>, <<>>>>,
   <<<<"$", "{", "{", " ">>, <<" ", "}", "}">>>>,
   <<<<"e", "n", "v", ".", "N", " ", "=", "=", " ">>, <<>>>>,
   <<<<>>, <<" ", "=", "=", " ", "e", "n", "v", ".", "N">>>>,
   <<<<"e", "n", "v", ".", "N", " ", ">", " ">>, <<>>>>,
   <<<<"e", "n", "v", ".", "N", " ", "&", "&", " ">>, <<>>>>,
   <<<<"f", "a", "l", "s", "e", " ", "|", "|", " ">>, <<>>>>,
   <<<<>>, <<" ", "&", "&", " ", "e", "n", "v", ".", "N">>>>,
   <<<<"!">>, <<>>>>,
   <<<<"c", "o", "n", "t", "a", "i", "n", "s", "(", "e", "n", "v", ".", "N", ",", " ">>, <<")">>>>,
   <<<<"c", "o", "n", "t", "a", "i", "n", "s", "(">>, <<",", " ", "e", "n", "v", ".", "N", ")">>>>,
   <<<<"e", "n", "d", "s", "W", "i", "t", "h", "(", "e", "n", "v", ".", "N", ",", " ">>, <<")">>>>,
   <<<<"f", "o", "r", "m", "a", "t", "(", "'", "{", "0", "}", "'", ",", " ">>, <<")">>>>,
   <<<<"f", "o", "r", "m", "a", "t", "(", "'", "{", "0", "}", "{", "1", "}", "'", ",", " ", "e", "n", "v", ".", "N", ",", " ">>, <<")">>>>,
   <<<<"t", "o", "J", "S", "O", "N", "(">>, <<")">>>>,
   <<<<"f", "r", "o", "m", "J", "S", "O", "N", "(">>, <<")">>>>,
   <<<<"j", "o", "i", "n", "(">>, <<",", " ", "'", ",", "'", ")">>>>,
   <<<<"j", "o", "i", "n", "(", "v", "a", "r", "s", ".", "L", ",", " ">>, <<")">>>>}

FailureCases ==
  {[text |-> around[1] \o f \o around[2], failing |-> f] :
     f \in FailingOperands, around \in FailureContexts}

\* expressions in which a hashFiles call is evaluated
HashFilesTexts ==
  {<<"h", "a", "s", "h", "F", "i", "l", "e", "s", "(", "'", "a", "'", ")">>, <<"h", "a", "s", "h", "F", "i", "l", "e", "s", "(", "'", "a", "'", ",", " ", "'", "b", "'", ")">>, <<"!", "h", "a", "s", "h", "F", "i", "l", "e", "s", "(", "'", "a", "'", ")">>,
   <<"e", "n", "v", ".", "N", " ", "=", "=", " ", "h", "a", "s", "h", "F", "i", "l", "e", "s", "(", "'", "a", "'", ")">>, <<"t", "r", "u", "e", " ", "&", "&", " ", "h", "a", "s", "h", "F", "i", "l", "e", "s", "(", "'", "a", "'", ")">>, <<"f", "a", "l", "s", "e", " ", "|", "|", " ", "h", "a", "s", "h", "F", "i", "l", "e", "s", "(", "'", "a", "'", ")">>,
   <<"f", "o", "r", "m", "a", "t", "(", "'", "{", "0", "}", "'", ",", " ", "h", "a", "s", "h", "F", "i", "l", "e", "s", "(", "'", "a", "'", ")", ")">>, <<"f", "o", "r", "m", "a", "t", "(", "'", "c", "-", "{", "0", "}", "-", "{", "1", "}", "'", ",", " ", "r", "u", "n", "n", "e", "r", ".", "o", "s", ",", " ", "h", "a", "s", "h", "F", "i", "l", "e", "s", "(", "'", "a", "'", ")", ")">>,
   <<"c", "o", "n", "t", "a", "i", "n", "s", "(", "h", "a", "s", "h", "F", "i", "l", "e", "s", "(", "'", "a", "'", ")", ",", " ", "'", "n", "'", ")">>, <<"s", "t", "a", "r", "t", "s", "W", "i", "t", "h", "(", "h", "a", "s", "h", "F", "i", "l", "e", "s", "(", "'", "a", "'", ")", ",", " ", "'", "n", "'", ")">>,
   <<"t", "o", "J", "S", "O", "N", "(", "h", "a", "s", "h", "F", "i", "l", "e", "s", "(", "'", "a", "'", ")", ")">>, <<"j", "o", "i", "n", "(", "h", "a", "s", "h", "F", "i", "l", "e", "s", "(", "'", "a", "'", ")", ",", " ", "'", ",", "'", ")">>}

\* malformed text: an unexpected token, unmatched brackets, unterminated and
\* badly terminated strings, empty arguments, trailing tokens
MalformedTexts ==
  {<<"@">>, <<")">>, <<"(", "t", "r", "u", "e">>, <<"'", "a", "b", "c">>, <<"'", "a", "'", "b", "'">>, <<"c", "o", "n", "t", "a", "i", "n", "s", "(", "'", "a", "'", ",", ",", " ", "'", "b", "'", ")">>,
   <<"c", "o", "n", "t", "a", "i", "n", "s", "(", "'", "a", "'", ",", " ", "'", "b", "'", ",", ")">>, <<"t", "r", "u", "e", " ", "f", "a", "l", "s", "e">>, <<"e", "n", "v", ".", "A", " ", "e", "n", "v", ".", "B">>}

\* the malformed text alone, and on either side of && and || next to a good operand
SyntaxErrorCases ==
  {[text |-> m] : m \in MalformedTexts}
  \cup {[text |-> l \o lop \o m] :
          m \in MalformedTexts, l \in {<<"t", "r", "u", "e">>, <<"f", "a", "l", "s", "e">>, <<"e", "n", "v", ".", "A">>}, lop \in {SpAND, SpOR}}
  \cup {[text |-> m \o lop \o l] :
          m \in MalformedTexts, l \in {<<"t", "r", "u", "e">>, <<"e", "n", "v", ".", "A">>}, lop \in {SpAND, SpOR}}

\* the nine context roots of the EvaluationContext
ContextRoots ==
  {<<"e", "n", "v">>, <<"v", "a", "r", "s">>, <<"s", "e", "c", "r", "e", "t", "s">>, <<"i", "n", "p", "u", "t", "s">>, <<"g", "i", "t", "h", "u", "b">>, <<"r", "u", "n", "n", "e", "r">>, <<"m", "a", "t", "r", "i", "x">>,
   <<"n", "e", "e", "d", "s">>, <<"s", "t", "r", "a", "t", "e", "g", "y">>}

\* bare identifiers and paths whose first segment is no context root
NonRootTexts ==
  {<<"j", "o", "b">>, <<"s", "t", "e", "p", "s">>, <<"f", "o", "o">>, <<"A">>, <<"r", "e", "f">>, <<"f", "u", "n", "c", "t", "i", "o", "n", "s">>, <<"f", "o", "o", ".", "b", "a", "r">>, <<"A", ".", "e", "n", "v">>,
   <<"j", "o", "b", ".", "s", "t", "a", "t", "u", "s">>, <<"s", "t", "e", "p", "s", ".", "b", "u", "i", "l", "d">>, <<"f", "u", "n", "c", "t", "i", "o", "n", "s", ".", "s", "u", "c", "c", "e", "s", "s">>, <<"r", "e", "f", ".", "g", "i", "t", "h", "u", "b">>}

\* expressions whose values are of every kind: arrays, null, objects, scalars
TypedValueTexts ==
  {<<"g", "i", "t", "h", "u", "b", ".", "e", "v", "e", "n", "t", ".", "c", "o", "m", "m", "i", "t", "s">>, <<"g", "i", "t", "h", "u", "b", ".", "e", "v", "e", "n", "t", ".", "n">>, <<"g", "i", "t", "h", "u", "b", ".", "e", "v", "e", "n", "t">>, <<"g", "i", "t", "h", "u", "b", ".", "r", "e", "f">>,
   <<"s", "t", "r", "a", "t", "e", "g", "y", ".", "j", "o", "b", "_", "i", "n", "d", "e", "x">>, <<"s", "t", "r", "a", "t", "e", "g", "y", ".", "f", "a", "i", "l", "_", "f", "a", "s", "t">>, <<"f", "r", "o", "m", "J", "S", "O", "N", "(", "v", "a", "r", "s", ".", "L", ")">>,
   <<"f", "r", "o", "m", "J", "S", "O", "N", "(", "'", "n", "u", "l", "l", "'", ")">>, <<"f", "r", "o", "m", "J", "S", "O", "N", "(", "'", "[", "1", ",", " ", "2", "]", "'", ")">>, <<"f", "r", "o", "m", "J", "S", "O", "N", "(", "'", "{", "\"", "a", "\"", ":", " ", "1", "}", "'", ")">>, <<"f", "r", "o", "m", "J", "S", "O", "N", "(", "'", "7", "'", ")">>,
   <<"t", "o", "J", "S", "O", "N", "(", "g", "i", "t", "h", "u", "b", ".", "e", "v", "e", "n", "t", ".", "n", ")">>}

\* a == b for operands that read the same or different context paths
RepeatedPathCases ==
  {[text |-> a \o EQ \o b, a |-> a, b |-> b] :
     a \in {<<"e", "n", "v", ".", "A">>, <<"g", "i", "t", "h", "u", "b", ".", "r", "e", "f">>, <<"e", "n", "v", ".", "B">>}, b \in {<<"e", "n", "v", ".", "A">>, <<"g", "i", "t", "h", "u", "b", ".", "r", "e", "f">>, <<"'", "x", "'">>}}

\* r.p == <literal> for roots r with a property p
RootPropertyCases ==
  {[text |-> <<"g", "i", "t", "h", "u", "b", ".", "r", "e", "f", " ", "=", "=", " ", "'", "m", "a", "i", "n", "'">>, path |-> <<"g", "i", "t", "h", "u", "b", ".", "r", "e", "f">>],
   [text |-> <<"g", "i", "t", "h", "u", "b", ".", "r", "e", "f", " ", "=", "=", " ", "'", "d", "e", "v", "'">>, path |-> <<"g", "i", "t", "h", "u", "b", ".", "r", "e", "f">>],
   [text |-> <<"e", "n", "v", ".", "A", " ", "=", "=", " ", "'", "x", "'">>, path |-> <<"e", "n", "v", ".", "A">>],
   [text |-> <<"e", "n", "v", ".", "N", " ", "=", "=", " ", "4", "2">>, path |-> <<"e", "n", "v", ".", "N">>],
   [text |-> <<"r", "u", "n", "n", "e", "r", ".", "o", "s", " ", "=", "=", " ", "'", "L", "i", "n", "u", "x", "'">>, path |-> <<"r", "u", "n", "n", "e", "r", ".", "o", "s">>],
   [text |-> <<"m", "a", "t", "r", "i", "x", ".", "o", "s", " ", "=", "=", " ", "\"", "l", "i", "n", "u", "x", "\"">>, path |-> <<"m", "a", "t", "r", "i", "x", ".", "o", "s">>],
   [text |-> <<"s", "t", "r", "a", "t", "e", "g", "y", ".", "j", "o", "b", "_", "i", "n", "d", "e", "x", " ", "=", "=", " ", "0">>, path |-> <<"s", "t", "r", "a", "t", "e", "g", "y", ".", "j", "o", "b", "_", "i", "n", "d", "e", "x">>],
   [text |-> <<"s", "t", "r", "a", "t", "e", "g", "y", ".", "f", "a", "i", "l", "_", "f", "a", "s", "t", " ", "=", "=", " ", "t", "r", "u", "e">>, path |-> <<"s", "t", "r", "a", "t", "e", "g", "y", ".", "f", "a", "i", "l", "_", "f", "a", "s", "t">>]}

\* calls of the status functions, alone and inside other expressions
StatusCallTexts ==
  {<<"s", "u", "c", "c", "e", "s", "s", "(", ")">>, <<"f", "a", "i", "l", "u", "r", "e", "(", ")">>, <<"a", "l", "w", "a", "y", "s", "(", ")">>, <<"c", "a", "n", "c", "e", "l", "l", "e", "d", "(", ")">>, <<"!", "c", "a", "n", "c", "e", "l", "l", "e", "d", "(", ")">>,
   <<"s", "u", "c", "c", "e", "s", "s", "(", ")", " ", "=", "=", " ", "t", "r", "u", "e">>, <<"e", "n", "v", ".", "A", " ", "&", "&", " ", "a", "l", "w", "a", "y", "s", "(", ")">>, <<"f", "o", "r", "m", "a", "t", "(", "'", "{", "0", "}", "'", ",", " ", "f", "a", "i", "l", "u", "r", "e", "(", ")", ")">>}

\* contains(a, b) for arrays and strings a
ContainsCases ==
  {[text |-> <<"c", "o", "n", "t", "a", "i", "n", "s", "(">> \o a \o <<",", " ">> \o b \o <<")">>, a |-> a, b |-> b] :
     a \in {<<"f", "r", "o", "m", "J", "S", "O", "N", "(", "v", "a", "r", "s", ".", "L", ")">>, <<"f", "r", "o", "m", "J", "S", "O", "N", "(", "'", "[", "\"", "a", "b", "\"", ",", " ", "4", "]", "'", ")">>, <<"g", "i", "t", "h", "u", "b", ".", "e", "v", "e", "n", "t", ".", "c", "o", "m", "m", "i", "t", "s">>,
            <<"e", "n", "v", ".", "N">>, <<"'", "a", "b", "c", "'">>, <<"e", "n", "v", ".", "A">>},
     b \in {<<"'", "x", "'">>, <<"'", "a", "'">>, <<"'", "x", ",", "y", "'">>, <<"4">>, <<"'", "a", "b", "'">>, <<"e", "n", "v", ".", "B">>}}

\* format(tmpl, v0, ..., vn): the template and the arguments, each given by
\* its expression text and the string it coerces to
FormatCases ==
  {[text |-> <<"f", "o", "r", "m", "a", "t", "(", "'", "B", "u", "i", "l", "d", " ", "{", "0", "}", " ", "o", "n", " ", "{", "1", "}", "'", ",", " ", "4", "2", ",", " ", "'", "m", "a", "i", "n", "'", ")">>, expected |-> <<"B", "u", "i", "l", "d", " ", "4", "2", " ", "o", "n", " ", "m", "a", "i", "n">>],
   [text |-> <<"f", "o", "r", "m", "a", "t", "(", "'", "{", "0", "}", "{", "0", "}", "'", ",", " ", "e", "n", "v", ".", "N", ")">>, expected |-> <<"4", "2", "4", "2">>],
   [text |-> <<"f", "o", "r", "m", "a", "t", "(", "'", "{", "1", "}", "-", "{", "0", "}", "'", ",", " ", "t", "r", "u", "e", ",", " ", "g", "i", "t", "h", "u", "b", ".", "r", "e", "f", ")">>, expected |-> <<"m", "a", "i", "n", "-", "t", "r", "u", "e">>],
   [text |-> <<"f", "o", "r", "m", "a", "t", "(", "'", "{", "0", "}", " ", "{", "2", "}", "'", ",", " ", "'", "a", "'", ",", " ", "'", "b", "'", ")">>, expected |-> <<"a", " ", "{", "2", "}">>],
   [text |-> <<"f", "o", "r", "m", "a", "t", "(", "'", "{", "0", "}", "'", ",", " ", "g", "i", "t", "h", "u", "b", ".", "e", "v", "e", "n", "t", ".", "n", ")">>, expected |-> <<"n", "u", "l", "l">>],
   [text |-> <<"f", "o", "r", "m", "a", "t", "(", "'", "n", "o", " ", "h", "o", "l", "e", "s", "'", ",", " ", "1", ")">>, expected |-> <<"n", "o", " ", "h", "o", "l", "e", "s">>],
   [text |-> <<"f", "o", "r", "m", "a", "t", "(", "'", "{", "0", "}", "'", ")">>, expected |-> <<"{", "0", "}">>],
   [text |-> <<"f", "o", "r", "m", "a", "t", "(", "e", "n", "v", ".", "N", ",", " ", "1", ")">>, expected |-> <<"4", "2">>],
   [text |-> <<"f", "o", "r", "m", "a", "t", "(", "'", "{", "0", "}", "{", "1", "}", "'", ",", " ", "'", "{", "1", "}", "'", ",", " ", "'", "z", "'", ")">>, expected |-> <<"{", "1", "}", "z">>],
   [text |-> <<"f", "o", "r", "m", "a", "t", "(", "'", "{", "0", "}", "'", ",", " ", "'", "{", "1", "}", "'", ",", " ", "'", "z", "'", ")">>, expected |-> <<"{", "1", "}">>],
   [text |-> <<"f", "o", "r", "m", "a", "t", "(", "'", "{", "0", "}", "-", "{", "1", "}", "'", ",", " ", "'", "{", "1", "}", "'", ",", " ", "e", "n", "v", ".", "N", ")">>, expected |-> <<"{", "1", "}", "-", "4", "2">>]}

\* join(arr) and join(arr, sep): the text, the strings the elements are
\* claimed to coerce to, and the separator
JoinCases ==
  {[text |-> <<"j", "o", "i", "n", "(", "f", "r", "o", "m", "J", "S", "O", "N", "(", "v", "a", "r", "s", ".", "L", ")", ",", " ", "'", "-", "'", ")">>, elements |-> <<<<"x">>, <<"y">>>>, sep |-> <<"-">>],
   [text |-> <<"j", "o", "i", "n", "(", "f", "r", "o", "m", "J", "S", "O", "N", "(", "v", "a", "r", "s", ".", "L", ")", ")">>, elements |-> <<<<"x">>, <<"y">>>>, sep |-> <<",">>],
   [text |-> <<"j", "o", "i", "n", "(", "f", "r", "o", "m", "J", "S", "O", "N", "(", "'", "[", "1", ",", " ", "t", "r", "u", "e", ",", " ", "\"", "a", "\"", "]", "'", ")", ",", " ", "'", ",", " ", "'", ")">>, elements |-> <<<<"1">>, <<"t", "r", "u", "e">>, <<"a">>>>, sep |-> <<",", " ">>],
   [text |-> <<"j", "o", "i", "n", "(", "f", "r", "o", "m", "J", "S", "O", "N", "(", "'", "[", "]", "'", ")", ",", " ", "'", "-", "'", ")">>, elements |-> <<>>, sep |-> <<"-">>],
   [text |-> <<"j", "o", "i", "n", "(", "f", "r", "o", "m", "J", "S", "O", "N", "(", "'", "[", "\"", "a", "\"", "]", "'", ")", ",", " ", "'", "-", "'", ")">>, elements |-> <<<<"a">>>>, sep |-> <<"-">>],
   [text |-> <<"j", "o", "i", "n", "(", "e", "n", "v", ".", "N", ",", " ", "'", "-", "'", ")">>, elements |-> <<<<"4", "2">>>>, sep |-> <<"-">>],
   [text |-> <<"j", "o", "i", "n", "(", "'", "a", "'", ")">>, elements |-> <<<<"a">>>>, sep |-> <<",">>],
   [text |-> <<"j", "o", "i", "n", "(", "7", ",", " ", "'", "-", "'", ")">>, elements |-> <<<<"7">>>>, sep |-> <<"-">>],
   [text |-> <<"j", "o", "i", "n", "(", "f", "r", "o", "m", "J", "S", "O", "N", "(", "'", "[", "\"", "a", "\"", ",", " ", "n", "u", "l", "l", ",", " ", "\"", "b", "\"", "]", "'", ")", ",", " ", "'", "-", "'", ")">>, elements |-> <<<<"a">>, <<>>, <<"b">>>>, sep |-> <<"-">>],
   [text |-> <<"j", "o", "i", "n", "(", "f", "r", "o", "m", "J", "S", "O", "N", "(", "'", "[", "n", "u", "l", "l", "]", "'", ")", ")">>, elements |-> << <<>> >>, sep |-> <<",">>]}

\* expressions of JSON-representable values held in the context
JSONValueTexts ==
  {<<"g", "i", "t", "h", "u", "b", ".", "e", "v", "e", "n", "t">>, <<"g", "i", "t", "h", "u", "b", ".", "e", "v", "e", "n", "t", ".", "c", "o", "m", "m", "i", "t", "s">>, <<"g", "i", "t", "h", "u", "b", ".", "e", "v", "e", "n", "t", ".", "n">>, <<"g", "i", "t", "h", "u", "b">>, <<"r", "u", "n", "n", "e", "r">>,
   <<"e", "n", "v", ".", "A">>, <<"e", "n", "v", ".", "N">>, <<"v", "a", "r", "s", ".", "L">>, <<"s", "t", "r", "a", "t", "e", "g", "y", ".", "j", "o", "b", "_", "i", "n", "d", "e", "x">>, <<"s", "t", "r", "a", "t", "e", "g", "y", ".", "f", "a", "i", "l", "_", "f", "a", "s", "t">>, <<"s", "t", "r", "a", "t", "e", "g", "y">>}

\* fromJSON(toJSON(v))
FromToJSONCases ==
  {[text |-> <<"f", "r", "o", "m", "J", "S", "O", "N", "(", "t", "o", "J", "S", "O", "N", "(">> \o v \o <<")", ")">>, v |-> v] : v \in JSONValueTexts}

\* toJSON(fromJSON('s')) for valid JSON texts s, with the compact text of
\* the value s denotes, object keys in the order s gives them
ToFromJSONCases ==
  {[text |-> <<"t", "o", "J", "S", "O", "N", "(", "f", "r", "o", "m", "J", "S", "O", "N", "(", "'">> \o c.s \o <<"'", ")", ")">>, compact |-> c.compact] :
     c \in {[s |-> <<"[", "1", ",", " ", "2", "]">>, compact |-> <<"[", "1", ",", "2", "]">>],
            [s |-> <<" ", "\"", "x", "\"", " ">>, compact |-> <<"\"", "x", "\"">>],
            [s |-> <<"n", "u", "l", "l">>, compact |-> <<"n", "u", "l", "l">>],
            [s |-> <<"-", "7">>, compact |-> <<"-", "7">>],
            [s |-> <<"{", "\"", "b", "\"", ":", " ", "1", ",", " ", "\"", "a", "\"", ":", " ", "[", "t", "r", "u", "e", ",", " ", "n", "u", "l", "l", "]", "}">>, compact |-> <<"{", "\"", "b", "\"", ":", "1", ",", "\"", "a", "\"", ":", "[", "t", "r", "u", "e", ",", "n", "u", "l", "l", "]", "}">>],
            [s |-> <<"{", " ", "}">>, compact |-> <<"{", "}">>],
            [s |-> <<"{", "\"", "b", "\"", ":", " ", "1", ",", " ", "\"", "1", "\"", ":", " ", "2", "}">>, compact |-> <<"{", "\"", "b", "\"", ":", "1", ",", "\"", "1", "\"", ":", "2", "}">>],
            [s |-> <<"[", "\"", "a", ".", "b", "\"", "]">>, compact |-> <<"[", "\"", "a", ".", "b", "\"", "]">>]}}

\* largest absolute value of the integer literals compared
MaxLiteral == 3

LE == <<" ", "<", "=", " ">>
GT == <<" ", ">", " ">>

\* operands that are numbers or numeric strings, and strings that are not numeric
NumericOperands == {<<"2">>, <<"-", "1">>, <<"1", "0">>, <<"e", "n", "v", ".", "N">>, <<"'", "4", "2", "'">>, <<"'", "9", "'">>, <<"s", "t", "r", "a", "t", "e", "g", "y", ".", "j", "o", "b", "_", "i", "n", "d", "e", "x">>}
NonNumericOperands == {<<"'", "a", "b", "c", "'">>, <<"g", "i", "t", "h", "u", "b", ".", "r", "e", "f">>}

\* l op r for the four relational operators
RelationalCases ==
  {[text |-> l \o op \o r, l |-> l, op |-> trim(op), r |-> r] :
     l \in NumericOperands \cup NonNumericOperands,
     r \in NumericOperands \cup NonNumericOperands,
     op \in {LT, LE, GT, GE}}

\* n > n-1 for integer literals n
SuccessorCases ==
  {[text |-> IntToText(n) \o GT \o IntToText(n - 1)] : n \in (0 - MaxLiteral)..MaxLiteral}

\* scalar operands: null, numbers, strings and booleans
ScalarOperands ==
  {<<"g", "i", "t", "h", "u", "b", ".", "e", "v", "e", "n", "t", ".", "n">>, <<"0">>, <<"1">>, <<"e", "n", "v", ".", "N">>, <<"'", "1", "'">>, <<"'", "t", "r", "u", "e", "'">>, <<"'", "'">>, <<"t", "r", "u", "e">>, <<"f", "a", "l", "s", "e">>,
   <<"s", "t", "r", "a", "t", "e", "g", "y", ".", "f", "a", "i", "l", "_", "f", "a", "s", "t">>}

\* l == r  and  l != r
EqualityCases ==
  {[text |-> l \o op \o r, l |-> l, negated |-> op = NE, r |-> r] :
     l \in ScalarOperands, r \in ScalarOperands, op \in {EQ, NE}}

\* f(args).name and f(args).name.name: a call followed by property names
ChainedCallCases ==
  {[text |-> <<"f", "r", "o", "m", "J", "S", "O", "N", "(", "'", "{", "\"", "k", "\"", ":", "\"", "v", "\"", "}", "'", ")", ".", "k">>, call |-> <<"f", "r", "o", "m", "J", "S", "O", "N", "(", "'", "{", "\"", "k", "\"", ":", "\"", "v", "\"", "}", "'", ")">>, names |-> <<<<"k">>>>],
   [text |-> <<"f", "r", "o", "m", "J", "S", "O", "N", "(", "'", "{", "\"", "d", "\"", ":", "t", "r", "u", "e", "}", "'", ")", ".", "d">>, call |-> <<"f", "r", "o", "m", "J", "S", "O", "N", "(", "'", "{", "\"", "d", "\"", ":", "t", "r", "u", "e", "}", "'", ")">>, names |-> <<<<"d">>>>],
   [text |-> <<"f", "r", "o", "m", "J", "S", "O", "N", "(", "'", "{", "\"", "e", "\"", ":", "{", "\"", "p", "\"", ":", "1", "}", "}", "'", ")", ".", "e", ".", "p">>, call |-> <<"f", "r", "o", "m", "J", "S", "O", "N", "(", "'", "{", "\"", "e", "\"", ":", "{", "\"", "p", "\"", ":", "1", "}", "}", "'", ")">>,
    names |-> <<<<"e">>, <<"p">>>>],
   [text |-> <<"f", "r", "o", "m", "J", "S", "O", "N", "(", "v", "a", "r", "s", ".", "L", ")", ".", "l", "e", "n", "g", "t", "h">>, call |-> <<"f", "r", "o", "m", "J", "S", "O", "N", "(", "v", "a", "r", "s", ".", "L", ")">>, names |-> <<<<"l", "e", "n", "g", "t", "h">>>>],
   [text |-> <<"f", "r", "o", "m", "J", "S", "O", "N", "(", "t", "o", "J", "S", "O", "N", "(", "g", "i", "t", "h", "u", "b", ")", ")", ".", "r", "e", "f">>, call |-> <<"f", "r", "o", "m", "J", "S", "O", "N", "(", "t", "o", "J", "S", "O", "N", "(", "g", "i", "t", "h", "u", "b", ")", ")">>, names |-> <<<<"r", "e", "f">>>>]}

\* base[i] and base[i].name: an index access, with the names that follow it
IndexCases ==
  {[text |-> <<"g", "i", "t", "h", "u", "b", ".", "e", "v", "e", "n", "t", ".", "c", "o", "m", "m", "i", "t", "s", "[", "0", "]", ".", "m", "e", "s", "s", "a", "g", "e">>, base |-> <<"g", "i", "t", "h", "u", "b", ".", "e", "v", "e", "n", "t", ".", "c", "o", "m", "m", "i", "t", "s">>, index |-> 0,
    names |-> <<<<"m", "e", "s", "s", "a", "g", "e">>>>],
   [text |-> <<"g", "i", "t", "h", "u", "b", ".", "e", "v", "e", "n", "t", ".", "c", "o", "m", "m", "i", "t", "s", "[", "0", "]">>, base |-> <<"g", "i", "t", "h", "u", "b", ".", "e", "v", "e", "n", "t", ".", "c", "o", "m", "m", "i", "t", "s">>, index |-> 0, names |-> <<>>],
   [text |-> <<"g", "i", "t", "h", "u", "b", ".", "e", "v", "e", "n", "t", ".", "c", "o", "m", "m", "i", "t", "s", "[", "1", "]">>, base |-> <<"g", "i", "t", "h", "u", "b", ".", "e", "v", "e", "n", "t", ".", "c", "o", "m", "m", "i", "t", "s">>, index |-> 1, names |-> <<>>],
   [text |-> <<"f", "r", "o", "m", "J", "S", "O", "N", "(", "v", "a", "r", "s", ".", "L", ")", "[", "1", "]">>, base |-> <<"f", "r", "o", "m", "J", "S", "O", "N", "(", "v", "a", "r", "s", ".", "L", ")">>, index |-> 1, names |-> <<>>],
   [text |-> <<"f", "r", "o", "m", "J", "S", "O", "N", "(", "v", "a", "r", "s", ".", "L", ")", "[", "2", "]">>, base |-> <<"f", "r", "o", "m", "J", "S", "O", "N", "(", "v", "a", "r", "s", ".", "L", ")">>, index |-> 2, names |-> <<>>],
   [text |-> <<"g", "i", "t", "h", "u", "b", ".", "r", "e", "f", "[", "0", "]">>, base |-> <<"g", "i", "t", "h", "u", "b", ".", "r", "e", "f">>, index |-> 0, names |-> <<>>],
   [text |-> <<"g", "i", "t", "h", "u", "b", ".", "e", "v", "e", "n", "t", "[", "0", "]">>, base |-> <<"g", "i", "t", "h", "u", "b", ".", "e", "v", "e", "n", "t">>, index |-> 0, names |-> <<>>]}

\* operands of the precedence cases
PrecedenceOperands == {<<"0">>, <<"1">>, <<"2">>}

\* texts with two operators and no parentheses, each with the two operand
\* texts l and r and the operator op of the grouping by precedence:
\* !a == b, a < b == c, a == b < c, and a op b op c with operators of equal
\* precedence
PrecedenceCases ==
  {[text |-> <<"!">> \o a \o eq \o b, l |-> <<"!">> \o a, op |-> eq, r |-> b] :
     a \in PrecedenceOperands, b \in PrecedenceOperands, eq \in {EQ, NE}}
  \cup {[text |-> a \o rel \o b \o eq \o c, l |-> a \o rel \o b, op |-> eq, r |-> c] :
     a \in PrecedenceOperands, b \in PrecedenceOperands, c \in PrecedenceOperands,
     rel \in {LT, GE}, eq \in {EQ, NE}}
  \cup {[text |-> a \o eq \o b \o rel \o c, l |-> a, op |-> eq, r |-> b \o rel \o c] :
     a \in PrecedenceOperands, b \in PrecedenceOperands, c \in PrecedenceOperands,
     rel \in {LT, GE}, eq \in {EQ, NE}}
  \cup {[text |-> a \o op1 \o b \o op2 \o c, l |-> a \o op1 \o b, op |-> op2, r |-> c] :
     a \in PrecedenceOperands, b \in PrecedenceOperands, c \in PrecedenceOperands,
     op1 \in {EQ, NE}, op2 \in {EQ, NE}}
  \cup {[text |-> a \o op1 \o b \o op2 \o c, l |-> a \o op1 \o b, op |-> op2, r |-> c] :
     a \in PrecedenceOperands, b \in PrecedenceOperands, c \in PrecedenceOperands,
     op1 \in {LT, GE}, op2 \in {LT, GE}}







Expressions ==
  {c.text : c \in ComparisonPairCases \cup MixedLogicalCases \cup LogicalPairCases
                   \cup TernaryCases \cup ShortCircuitCases \cup CallOperandCases
                   \cup ParenthesizedCases \cup ParenthesizedOrCases
                   \cup StringLiteralCases \cup FailureCases \cup SyntaxErrorCases}
  \cup HashFilesTexts \cup ContextRoots \cup NonRootTexts
  \cup TypedValueTexts
  \cup {c.text : c \in RepeatedPathCases}
  \cup {c.text : c \in RootPropertyCases}
  \cup StatusCallTexts
  \cup {c.text : c \in ContainsCases}
  \cup {c.text : c \in FormatCases}
  \cup {c.text : c \in JoinCases}
  \cup {c.text : c \in FromToJSONCases \cup ToFromJSONCases}
  \cup {c.text : c \in RelationalCases \cup SuccessorCases}
  \cup {c.text : c \in EqualityCases}
  \cup {c.text : c \in ChainedCallCases}
  \cup {c.text : c \in IndexCases}
  \cup {c.text : c \in PrecedenceCases}

----------------------------------------------------------------------------
(* The application around the evaluator: the state of App, ContextBuilder  *)
(* and ExpressionInput before the first render                             *)

\* nothing saved: localStorage.getItem gives null, the URL has no fragment
Absent == [present |-> FALSE, variables |-> <<>>]

\* useState<ContextVariable[]>([...]): the variables of the first render
Defaults ==
  <<[name |-> <<"A">>, value |-> <<"w">>, type |-> <<"e", "n", "v">>, scope |-> "workflow"],
    [name |-> <<"T">>, value |-> <<"s">>, type |-> <<"s", "e", "c", "r", "e", "t", "s">>, scope |-> "workflow"]>>

\* useState("github.ref == 'refs/heads/main'"), with the ref of the snapshots
DefaultExpression == <<"g", "i", "t", "h", "u", "b", ".", "r", "e", "f", " ", "=", "=", " ", "'", "m", "a", "i", "n", "'">>

\* no evaluation is scheduled
NoTimer == [pending |-> FALSE, expression |-> <<>>, variables |-> <<>>]

\* the step handed nothing to the browser (no download, no new tab)
NoOutput == [kind |-> "none", variables |-> <<>>]

\* the page is open and App is not mounted yet; h is the state in the URL
\* fragment and s the state in localStorage
Unmounted(h, s) ==
  /\ variables = Defaults
  /\ toggledOn = [i \in 1..Len(Defaults) |-> FALSE]
  /\ currentScope = "workflow"
  /\ revealedSecrets = {}
  /\ storage = s
  /\ hash = h
  /\ opened = [hash |-> h, storage |-> s]
  /\ output = NoOutput
  /\ phase = "opened"
  /\ timer = NoTimer
  /\ frames = <<>>

----------------------------------------------------------------------------
(* The evaluator as a state machine: an evaluator is constructed on a      *)
(* snapshot, and evaluateExpression is called on an expression text.       *)

Init ==
  /\ context \in Snapshots
  /\ expression \in Expressions
  /\ result = NoResult
  /\ calls = 0
  /\ Unmounted(Absent, Absent)

\* result = await evaluator.evaluateExpression(expression)
EvaluateExpression ==
  /\ result = NoResult
  /\ result' = evaluateExpression(expression)
  /\ calls' = calls + 1
  /\ UNCHANGED <<context, expression, frames, app>>

Next == EvaluateExpression

Spec == Init /\ [][Next]_vars

\* number of calls made on one evaluator
MaxCalls == 3

\* the expressions of the calls made one after another on one evaluator
CallTexts ==
  {<<"e", "n", "v", ".", "A">>, <<"e", "n", "v", ".", "A", " ", "=", "=", " ", "'", "x", "'">>, <<"g", "i", "t", "h", "u", "b", ".", "r", "e", "f", " ", "=", "=", " ", "'", "m", "a", "i", "n", "'">>, <<"g", "i", "t", "h", "u", "b", ".", "e", "v", "e", "n", "t", ".", "c", "o", "m", "m", "i", "t", "s">>, <<"g", "i", "t", "h", "u", "b">>,
   <<"j", "o", "i", "n", "(", "g", "i", "t", "h", "u", "b", ".", "e", "v", "e", "n", "t", ".", "c", "o", "m", "m", "i", "t", "s", ")">>, <<"j", "o", "i", "n", "(", "f", "r", "o", "m", "J", "S", "O", "N", "(", "v", "a", "r", "s", ".", "L", ")", ",", " ", "'", "-", "'", ")">>, <<"f", "r", "o", "m", "J", "S", "O", "N", "(", "v", "a", "r", "s", ".", "L", ")">>,
   <<"t", "o", "J", "S", "O", "N", "(", "g", "i", "t", "h", "u", "b", ".", "e", "v", "e", "n", "t", ")">>, <<"f", "o", "r", "m", "a", "t", "(", "'", "{", "0", "}", "-", "{", "1", "}", "'", ",", " ", "e", "n", "v", ".", "A", ",", " ", "r", "u", "n", "n", "e", "r", ".", "o", "s", ")">>, <<"c", "o", "n", "t", "a", "i", "n", "s", "(", "e", "n", "v", ".", "N", ",", " ", "4", ")">>,
   <<"s", "u", "c", "c", "e", "s", "s", "(", ")">>, <<"e", "n", "v", ".", "A", " ", "&", "&", " ", "e", "n", "v", ".", "B", " ", "|", "|", " ", "e", "n", "v", ".", "N">>, <<"e", "n", "v", ".", "M">>, <<"g", "i", "t", "h", "u", "b", ".", "r", "e", "f", ".", "x">>, <<"h", "a", "s", "h", "F", "i", "l", "e", "s", "(", "'", "a", "'", ")">>,
   <<"s", "t", "r", "a", "t", "e", "g", "y", ".", "j", "o", "b", "_", "i", "n", "d", "e", "x", " ", "<", " ", "1">>, <<"!", "e", "n", "v", ".", "B">>}

CallsInit ==
  /\ context \in Snapshots
  /\ expression \in CallTexts
  /\ result = NoResult
  /\ calls = 0
  /\ Unmounted(Absent, Absent)

\* mutant of EvaluateAgain: the hits of the previous call stay in the accumulator
EvaluateAgain_KeepsHits ==
  /\ calls >= 1
  /\ calls < MaxCalls
  /\ \E e \in CallTexts :
       /\ expression' = e
       /\ result' = [evaluateExpression(e) EXCEPT !.contextHits = result.contextHits \o @]
  /\ calls' = calls + 1
  /\ UNCHANGED <<context, frames, app>>

\* a further evaluator.evaluateExpression(e) on the same evaluator
EvaluateAgain ==
  /\ calls >= 1
  /\ calls < MaxCalls
  /\ \E e \in CallTexts :
       /\ expression' = e
       /\ result' = evaluateExpression(e)
  /\ calls' = calls + 1
  /\ UNCHANGED <<context, frames, app>>

CallsNext == EvaluateExpression \/ EvaluateAgain

CallsSpec == CallsInit /\ [][CallsNext]_vars

Evaluated == result # NoResult

\* error is populated in an ExpressionResult
Failed(r) == r.error # NoError

----------------------------------------------------------------------------
(* Claims                                                                  *)

\* what `l operator r` must evaluate to, given the results of l and of r:
\* l decides alone when it fails or short-circuits, otherwise r does
Combine(operator, l, r) ==
  IF Failed(l) THEN l
  ELSE IF (operator = AND) # isTruthy(l.value) THEN l
  ELSE IF Failed(r) THEN r
  ELSE [r EXCEPT !.contextHits = l.contextHits \o r.contextHits]

\* C1: for operands that are context property paths or literals, comparisons
\* bind tighter than && and ||, and && binds tighter than ||:
\* `a == b && c == d` evaluates as the && of `a == b` and `c == d`,
\* `x && y || z` as (x && y) || z and `x || y && z` as x || (y && z).
C1_ComparisonBindsTighterThanAndThanOr ==
  Evaluated =>
    /\ \A c \in ComparisonPairCases :
         expression = c.text =>
           result = Combine(c.operator, evaluateExpression(c.left), evaluateExpression(c.right))
    /\ \A c \in MixedLogicalCases :
         expression = c.text =>
           result = IF c.andFirst
                    THEN Combine(OR, Combine(AND, evaluateExpression(c.x), evaluateExpression(c.y)),
                                 evaluateExpression(c.z))
                    ELSE Combine(OR, evaluateExpression(c.x),
                                 Combine(AND, evaluateExpression(c.y), evaluateExpression(c.z)))

\* C1 witness: `env.A == 'x' && false == false` was evaluated on a snapshot
\* with env.A = 'x' and gave true
C1_Witness ==
  /\ Evaluated
  /\ expression = <<"e", "n", "v", ".", "A", " ", "=", "=", " ", "'", "x", "'", " ", "&", "&", " ", "f", "a", "l", "s", "e", " ", "=", "=", " ", "f", "a", "l", "s", "e">>
  /\ result.value = Bool(TRUE)
  /\ result.contextHits = <<<<"e", "n", "v">>, <<"e", "n", "v", ".", "A">>>>

\* the operand that decides `l operator r`: l when it short-circuits, else r
Selects(operator, lvalue) == IF (operator = AND) # isTruthy(lvalue) THEN "left" ELSE "right"

\* C2: && and || return one of their operands, not a boolean: `a && b` is
\* a's value with a's type tag when a is falsy and b's value otherwise,
\* `a || b` is a's value when a is truthy and b's value otherwise, and
\* `c && 'X' || 'Y'` is 'X' when c is truthy and 'Y' when c is falsy.
C2_LogicalOperatorsReturnAnOperand ==
  Evaluated =>
    /\ \A c \in LogicalPairCases :
         expression = c.text =>
           LET a == evaluateExpression(c.a)
               b == evaluateExpression(c.b)
           IN  /\ ~Failed(a) /\ Selects(c.operator, a.value) = "left"
                    => ~Failed(result) /\ result.value = a.value /\ result.type = a.type
               /\ ~Failed(a) /\ Selects(c.operator, a.value) = "right" /\ ~Failed(b)
                    => ~Failed(result) /\ result.value = b.value /\ result.type = b.type
    /\ \A c \in TernaryCases :
         expression = c.text =>
           LET cond == evaluateExpression(c.c)
           IN  ~Failed(cond) =>
                 /\ ~Failed(result)
                 /\ result.value = IF isTruthy(cond.value) THEN Str(<<"X">>) ELSE Str(<<"Y">>)

\* C3: `L && X` with falsy L and `L || X` with truthy L evaluate to L's
\* value without error, whatever X is, and none of X's context paths is
\* recorded in contextHits.
C3_ShortCircuitSkipsRightOperand ==
  Evaluated =>
    \A c \in ShortCircuitCases :
      expression = c.text =>
        LET l == evaluateExpression(c.l)
        IN  ~Failed(l) /\ Selects(c.operator, l.value) = "left" =>
              /\ ~Failed(result)
              /\ result.value = l.value
              /\ \A i \in 1..Len(result.contextHits) : result.contextHits[i] \notin c.paths

\* C4: when an operand of a top-level && or || is a call to a built-in that
\* takes arguments, also as the left operand, the expression evaluates to
\* the logical combination of the call's value and the other operand.
C4_CallBindsTighterThanLogicalOperators ==
  Evaluated =>
    \A c \in CallOperandCases :
      expression = c.text =>
        result = Combine(c.operator, evaluateExpression(c.left), evaluateExpression(c.right))

\* two results agree on everything but the wording of an error
SameOutcome(r1, r2) ==
  /\ Failed(r1) = Failed(r2)
  /\ r1.value = r2.value
  /\ r1.type = r2.type
  /\ r1.contextHits = r2.contextHits

\* C5: parentheses override precedence: `(E)` evaluates to the same result
\* as `E`, and `(a || b) && c` is the && of the value of `a || b` with c.
C5_ParenthesesOverridePrecedence ==
  Evaluated =>
    /\ \A c \in ParenthesizedCases :
         expression = c.text => SameOutcome(result, evaluateExpression(c.inner))
    /\ \A c \in ParenthesizedOrCases :
         expression = c.text =>
           SameOutcome(result,
                       Combine(AND, Combine(OR, evaluateExpression(c.a), evaluateExpression(c.b)),
                               evaluateExpression(c.c)))

\* C6: a quoted string literal evaluates to exactly the characters between
\* its quotes, with type 'string' and no context hits, whatever the
\* characters are, alone, as an operand of a comparison and as an argument.
C6_StringLiteralIsItsCharacters ==
  Evaluated =>
    \A c \in StringLiteralCases :
      expression = c.text =>
        /\ ~Failed(result)
        /\ result.contextHits = <<>>
        /\ c.place \in {"whole", "argument"} => result.value = Str(c.body) /\ result.type = "string"
        /\ c.place = "operand" => result.value = Bool(TRUE)

\* C7: whenever the evaluation of the expression or of a sub-expression
\* fails, evaluateExpression returns a result with error populated, type
\* 'error', value null and no context hits, also when hits were gathered
\* before the failure.
C7_FailureYieldsBareErrorResult ==
  Evaluated =>
    /\ Failed(result) =>
         result.type = "error" /\ result.value = Null /\ result.contextHits = <<>>
    /\ \A c \in FailureCases :
         expression = c.text /\ Failed(evaluateExpression(c.failing)) => Failed(result)

\* C7 witness: format had recorded the hits of env.N when its next argument,
\* the missing property env.M, failed
C7_Witness ==
  /\ Evaluated
  /\ expression = <<"f", "o", "r", "m", "a", "t", "(", "'", "{", "0", "}", "{", "1", "}", "'", ",", " ", "e", "n", "v", ".", "N", ",", " ", "e", "n", "v", ".", "M", ")">>
  /\ Failed(evaluateExpression(<<"e", "n", "v", ".", "M">>))
  /\ evaluateExpression(<<"e", "n", "v", ".", "N">>).contextHits # <<>>
  /\ result.type = "error"
  /\ result.contextHits = <<>>

\* C8: with no file-access capability, every expression in which a
\* hashFiles call is evaluated, at top level or nested, yields an error result.
C8_HashFilesAlwaysFails ==
  Evaluated /\ expression \in HashFilesTexts => Failed(result)

\* C9: an expression with a syntax error yields an error result for every
\* context snapshot and wherever the malformed text stands.
C9_SyntaxErrorAlwaysReported ==
  Evaluated =>
    \A c \in SyntaxErrorCases : expression = c.text => Failed(result)

\* C10: a bare identifier or a path whose first segment is not one of the
\* nine context roots yields an error result; one of the nine roots alone
\* returns that root's object and records the root name as the only hit.
C10_OnlyTheNineRootsResolve ==
  Evaluated =>
    /\ expression \in NonRootTexts => Failed(result)
    /\ expression \in ContextRoots =>
         /\ ~Failed(result)
         /\ result.value = GetProperty(context, expression)
         /\ result.type = "object"
         /\ result.contextHits = <<expression>>


----------------------------------------------------------------------------
(* Reached states in which the evaluator departs from the claimed result   *)

\* C2: contains(env.A, 'x') is true, yet the ternary idiom on it is an error
C2_Divergence ==
  /\ Evaluated
  /\ expression = <<"c", "o", "n", "t", "a", "i", "n", "s", "(", "e", "n", "v", ".", "A", ",", " ", "'", "x", "'", ")", " ", "&", "&", " ", "'", "X", "'", " ", "|", "|", " ", "'", "Y", "'">>
  /\ evaluateExpression(<<"c", "o", "n", "t", "a", "i", "n", "s", "(", "e", "n", "v", ".", "A", ",", " ", "'", "x", "'", ")">>).value = Bool(TRUE)
  /\ result.error = "Invalid contains() function"

\* C3: startsWith(env.B, 'x') is false, yet && on it does not yield false
C3_Divergence ==
  /\ Evaluated
  /\ expression = <<"s", "t", "a", "r", "t", "s", "W", "i", "t", "h", "(", "e", "n", "v", ".", "B", ",", " ", "'", "x", "'", ")", " ", "&", "&", " ", "g", "i", "t", "h", "u", "b", ".", "n", "o", "p", "e">>
  /\ evaluateExpression(<<"s", "t", "a", "r", "t", "s", "W", "i", "t", "h", "(", "e", "n", "v", ".", "B", ",", " ", "'", "x", "'", ")">>).value = Bool(FALSE)
  /\ result.error = "Invalid string function"

\* C4: two calls of contains joined by || are read as one call of three arguments
C4_Divergence ==
  /\ Evaluated
  /\ expression = <<"c", "o", "n", "t", "a", "i", "n", "s", "(", "e", "n", "v", ".", "A", ",", " ", "'", "x", "'", ")", " ", "|", "|", " ", "c", "o", "n", "t", "a", "i", "n", "s", "(", "e", "n", "v", ".", "B", ",", " ", "'", "x", "'", ")">>
  /\ ~Failed(evaluateExpression(<<"c", "o", "n", "t", "a", "i", "n", "s", "(", "e", "n", "v", ".", "A", ",", " ", "'", "x", "'", ")">>))
  /\ ~Failed(evaluateExpression(<<"c", "o", "n", "t", "a", "i", "n", "s", "(", "e", "n", "v", ".", "B", ",", " ", "'", "x", "'", ")">>))
  /\ result.error = "contains() requires exactly 2 arguments"

\* C5: a parenthesized literal is not parsed
C5_Divergence ==
  /\ Evaluated
  /\ expression = <<"(", "f", "a", "l", "s", "e", ")">>
  /\ result.error = "Unable to parse expression"

\* C6: a string literal with a dot in it is read as a property path
C6_Divergence ==
  /\ Evaluated
  /\ expression = <<"'", "a", ".", "b", "'">>
  /\ result.error = "Property not found in context"

\* C8: format renders the result of hashFiles as the text null
C8_Divergence ==
  /\ Evaluated
  /\ expression = <<"f", "o", "r", "m", "a", "t", "(", "'", "c", "-", "{", "0", "}", "-", "{", "1", "}", "'", ",", " ", "r", "u", "n", "n", "e", "r", ".", "o", "s", ",", " ", "h", "a", "s", "h", "F", "i", "l", "e", "s", "(", "'", "a", "'", ")", ")">>
  /\ ~Failed(result)
  /\ result.value = Str(<<"c", "-", "L", "i", "n", "u", "x", "-", "n", "u", "l", "l">>)

\* C9: text after a closing quote is taken into the string literal
C9_Divergence ==
  /\ Evaluated
  /\ expression = <<"'", "a", "'", "b", "'">>
  /\ ~Failed(result)
  /\ result.value = Str(<<"a", "'", "b">>)

\* C10: the identifier job evaluates to undefined and is recorded as a hit
C10_Divergence ==
  /\ Evaluated
  /\ expression = <<"j", "o", "b">>
  /\ ~Failed(result)
  /\ result.value = Undefined
  /\ result.type = "undefined"
  /\ result.contextHits = <<<<"j", "o", "b">>>>
----------------------------------------------------------------------------
(* Result invariants                                                       *)

\* the type tags of a result
TypeTags == {"null", "boolean", "number", "string", "array", "object", "error"}

\* the tag that names the kind of a value
KindOf(val) == IF val.t = "NaN" THEN "number" ELSE val.t

\* C11: in every result the type tag is one of 'null', 'boolean', 'number',
\* 'string', 'array', 'object', 'error' and names the kind of the value
\* ('array' for an array, 'null' for null, 'object' only for a non-array
\* object), and it is 'error' exactly when error is populated.
C11_TypeTagNamesTheKind ==
  Evaluated =>
    /\ result.type \in TypeTags
    /\ Failed(result) <=> result.type = "error"
    /\ ~Failed(result) => result.type = KindOf(result.value)

\* C11: the array github.event.commits is tagged 'object'
C11_Divergence ==
  /\ Evaluated
  /\ expression = <<"g", "i", "t", "h", "u", "b", ".", "e", "v", "e", "n", "t", ".", "c", "o", "m", "m", "i", "t", "s">>
  /\ ~Failed(result)
  /\ result.value.t = "array"
  /\ result.type = "object"

\* no entry of the sequence occurs twice
NoDuplicates(hits) == \A i \in 1..Len(hits), j \in 1..Len(hits) : hits[i] = hits[j] => i = j

\* the sequence without the later occurrences of its entries
RECURSIVE FirstTouches(_)
FirstTouches(hits) ==
  IF hits = <<>> THEN <<>>
  ELSE LET front == FirstTouches(SubSeq(hits, 1, Len(hits) - 1))
           last == hits[Len(hits)]
       IN  IF \E i \in 1..Len(front) : front[i] = last THEN front ELSE Append(front, last)

\* C12: in every successful result contextHits has no duplicate entries and
\* lists the paths in the order in which they were first dereferenced, also
\* when the same path is read more than once in the expression.
C12_ContextHitsAreDuplicateFree ==
  Evaluated /\ ~Failed(result) =>
    /\ NoDuplicates(result.contextHits)
    /\ \A c \in RepeatedPathCases :
         expression = c.text =>
           result.contextHits =
             FirstTouches(evaluateExpression(c.a).contextHits \o evaluateExpression(c.b).contextHits)

\* C12: env.A read on both sides of == is recorded twice
C12_Divergence ==
  /\ Evaluated
  /\ expression = <<"e", "n", "v", ".", "A", " ", "=", "=", " ", "e", "n", "v", ".", "A">>
  /\ ~Failed(result)
  /\ result.contextHits = <<<<"e", "n", "v">>, <<"e", "n", "v", ".", "A">>, <<"e", "n", "v">>, <<"e", "n", "v", ".", "A">>>>

\* C13: `r.p == <literal>` for a context root r with a property p yields
\* contextHits equal to the one-element sequence ["r.p"]; github.ref compared
\* with the text of the ref gives value true, type 'boolean' and
\* contextHits ["github.ref"].
C13_ComparisonHitsTheOnePath ==
  Evaluated =>
    /\ \A c \in RootPropertyCases :
         expression = c.text => ~Failed(result) /\ result.contextHits = <<c.path>>
    /\ expression = <<"g", "i", "t", "h", "u", "b", ".", "r", "e", "f", " ", "=", "=", " ", "'", "m", "a", "i", "n", "'">> =>
         result.value = Bool(TRUE) /\ result.type = "boolean"

\* C13: the root github is recorded before github.ref
C13_Divergence ==
  /\ Evaluated
  /\ expression = <<"g", "i", "t", "h", "u", "b", ".", "r", "e", "f", " ", "=", "=", " ", "'", "m", "a", "i", "n", "'">>
  /\ result.value = Bool(TRUE)
  /\ result.type = "boolean"
  /\ result.contextHits = <<<<"g", "i", "t", "h", "u", "b">>, <<"g", "i", "t", "h", "u", "b", ".", "r", "e", "f">>>>

\* the path starts with one of the nine roots and every segment of it is
\* found in the context snapshot
IsContextPath(path) ==
  LET parts == split(path, ".")
  IN  /\ parts[1] \in ContextRoots
      /\ ~propertyAccessLoop(parts, 1, context, <<>>, <<>>).thrown

\* C14: every entry of contextHits, in every result, is a dotted path that
\* starts with one of the nine context roots and that was dereferenced in
\* the context snapshot; no other string is recorded as a context hit.
C14_HitsArePathsOfTheContext ==
  Evaluated =>
    \A i \in 1..Len(result.contextHits) : IsContextPath(result.contextHits[i])

\* C14: the call success() records the string functions.success
C14_Divergence ==
  /\ Evaluated
  /\ expression = <<"s", "u", "c", "c", "e", "s", "s", "(", ")">>
  /\ ~Failed(result)
  /\ result.contextHits = <<<<"f", "u", "n", "c", "t", "i", "o", "n", "s", ".", "s", "u", "c", "c", "e", "s", "s">>>>
  /\ ~IsContextPath(<<"f", "u", "n", "c", "t", "i", "o", "n", "s", ".", "s", "u", "c", "c", "e", "s", "s">>)

----------------------------------------------------------------------------
(* Built-in functions                                                      *)

\* C16: contains(a, b) with an array a is true iff some element of a
\* loosely equals b; with a string a it is true iff a contains the string
\* coercion of b as a substring.
C16_ContainsMatchesElementOrSubstring ==
  Evaluated =>
    \A c \in ContainsCases :
      expression = c.text =>
        LET a == evaluateExpression(c.a).value
            b == evaluateExpression(c.b).value
        IN  /\ ~Failed(result)
            /\ a.t = "array" =>
                 result.value = Bool(\E i \in 1..Len(a.v) : LooseEquals(a.v[i], b))
            /\ a.t = "string" => result.value = Bool(includes(a.v, String(b)))

\* C16: no element of ["x","y"] equals 'x,y', yet contains is true
C16_Divergence ==
  /\ Evaluated
  /\ expression = <<"c", "o", "n", "t", "a", "i", "n", "s", "(", "f", "r", "o", "m", "J", "S", "O", "N", "(", "v", "a", "r", "s", ".", "L", ")", ",", " ", "'", "x", ",", "y", "'", ")">>
  /\ evaluateExpression(<<"f", "r", "o", "m", "J", "S", "O", "N", "(", "v", "a", "r", "s", ".", "L", ")">>).value = Arr(0, <<Str(<<"x">>), Str(<<"y">>)>>)
  /\ result.value = Bool(TRUE)

\* C17: format(tmpl, v0, ..., vn) returns the template in which each
\* placeholder {i} of the original template is replaced by the string
\* coercion of v[i]; inserted text is not itself treated as a placeholder,
\* and a placeholder with no matching argument is left verbatim.
C17_FormatReplacesPlaceholdersOnce ==
  Evaluated =>
    \A c \in FormatCases :
      expression = c.text =>
        ~Failed(result) /\ result.type = "string" /\ result.value = Str(c.expected)

\* C17: the text {1} inserted for {0} is replaced again by the next argument
C17_Divergence ==
  /\ Evaluated
  /\ expression = <<"f", "o", "r", "m", "a", "t", "(", "'", "{", "0", "}", "'", ",", " ", "'", "{", "1", "}", "'", ",", " ", "'", "z", "'", ")">>
  /\ result.value = Str(<<"z">>)

\* C18: join(arr, sep) returns the string coercions of the elements of arr
\* (a null element coerces to the empty string) concatenated with sep
\* between them, sep defaulting to ','; a scalar arr is treated as a
\* one-element array and an empty array gives the empty string.
C18_JoinConcatenatesCoercedElements ==
  Evaluated =>
    \A c \in JoinCases :
      expression = c.text =>
        /\ ~Failed(result)
        /\ result.type = "string"
        /\ result.value = Str(joinText(c.elements, c.sep))

\* C18: a null element is joined as the text null
C18_Divergence ==
  /\ Evaluated
  /\ expression = <<"j", "o", "i", "n", "(", "f", "r", "o", "m", "J", "S", "O", "N", "(", "'", "[", "\"", "a", "\"", ",", " ", "n", "u", "l", "l", ",", " ", "\"", "b", "\"", "]", "'", ")", ",", " ", "'", "-", "'", ")">>
  /\ result.value = Str(<<"a", "-", "n", "u", "l", "l", "-", "b">>)

\* a value without the identities of its arrays and objects
RECURSIVE Structure(_)
Structure(val) ==
  CASE val.t = "array" -> Arr(0, [i \in 1..Len(val.v) |-> Structure(val.v[i])])
    [] val.t = "object" ->
         Obj(0, [i \in 1..Len(val.v) |-> <<val.v[i][1], Structure(val.v[i][2])>>])
    [] OTHER -> val

\* C19: for every JSON-representable value v held in the context,
\* fromJSON(toJSON(v)) evaluates without error to a value structurally equal
\* to v, and for every valid JSON text s, toJSON(fromJSON(s)) is the compact
\* JSON text of the value s denotes, with object keys in their original
\* order.
C19_JSONRoundTrip ==
  Evaluated =>
    /\ \A c \in FromToJSONCases :
         expression = c.text =>
           /\ ~Failed(result)
           /\ Structure(result.value) = Structure(evaluateExpression(c.v).value)
    /\ \A c \in ToFromJSONCases :
         expression = c.text => ~Failed(result) /\ result.value = Str(c.compact)

\* C19: the key 1 is written before the key b that preceded it in the text
C19_Divergence ==
  /\ Evaluated
  /\ expression = <<"t", "o", "J", "S", "O", "N", "(", "f", "r", "o", "m", "J", "S", "O", "N", "(", "'", "{", "\"", "b", "\"", ":", " ", "1", ",", " ", "\"", "1", "\"", ":", " ", "2", "}", "'", ")", ")">>
  /\ result.value = Str(<<"{", "\"", "1", "\"", ":", "2", ",", "\"", "b", "\"", ":", "1", "}">>)

----------------------------------------------------------------------------
(* Comparison operators                                                    *)

\* a string that does not denote a number
IsNonNumericString(val) ==
  val.t = "string" /\ trim(val.v) # <<>> /\ Number(val).t = "NaN"

\* l op r on numbers
Compare(op, l, r) ==
  CASE op = <<"<">> -> l < r
    [] op = <<"<", "=">> -> l <= r
    [] op = <<">">> -> l > r
    [] OTHER -> l >= r

\* C20: <, <=, >, >= coerce both operands to Number and compare
\* numerically: n > n-1 is true for integer literals, a numeric string
\* compares by its numeric value, and when an operand is a string that is not
\* numeric the comparison yields an error result, not a boolean.
C20_RelationalOperatorsCompareNumbers ==
  Evaluated =>
    /\ \A c \in SuccessorCases :
         expression = c.text => ~Failed(result) /\ result.value = Bool(TRUE)
    /\ \A c \in RelationalCases :
         expression = c.text =>
           LET l == evaluateExpression(c.l).value
               r == evaluateExpression(c.r).value
           IN  IF IsNonNumericString(l) \/ IsNonNumericString(r)
               THEN Failed(result)
               ELSE /\ ~Failed(result)
                    /\ result.type = "boolean"
                    /\ result.value = Bool(Compare(c.op, Number(l).v, Number(r).v))

\* C20: the non-numeric string 'abc' compares as false, without error
C20_Divergence ==
  /\ Evaluated
  /\ expression = <<"'", "a", "b", "c", "'", " ", "<", " ", "2">>
  /\ ~Failed(result)
  /\ result.value = Bool(FALSE)
  /\ result.type = "boolean"

\* equality of scalars by the documented coercion: null equals only null, a
\* Number on either side makes the comparison numeric, otherwise the texts
\* of the two operands are compared
CoercedEquals(l, r) ==
  IF l.t = "null" \/ r.t = "null" THEN l.t = "null" /\ r.t = "null"
  ELSE IF l.t = "number" \/ r.t = "number"
       THEN Number(l).t = "number" /\ Number(r).t = "number" /\ Number(l).v = Number(r).v
       ELSE String(l) = String(r)

\* C21: == on scalar operands follows the documented coercion (null equals
\* only null; with a Number on either side both are compared as numbers;
\* otherwise both are compared as text, so a Boolean equals a String iff its
\* text 'true' or 'false' is that String), and != is the negation of ==.
C21_EqualityFollowsDocumentedCoercion ==
  Evaluated =>
    \A c \in EqualityCases :
      expression = c.text =>
        LET l == evaluateExpression(c.l).value
            r == evaluateExpression(c.r).value
        IN  /\ ~Failed(result)
            /\ result.type = "boolean"
            /\ result.value = Bool(CoercedEquals(l, r) # c.negated)

\* C21: the Boolean true and the String 'true' are not equal
C21_Divergence ==
  /\ Evaluated
  /\ expression = <<"t", "r", "u", "e", " ", "=", "=", " ", "'", "t", "r", "u", "e", "'">>
  /\ ~Failed(result)
  /\ result.value = Bool(FALSE)

\* the value reached from val by the property names, in order
RECURSIVE PropertyAt(_, _)
PropertyAt(val, names) ==
  IF names = <<>> THEN val ELSE PropertyAt(GetProperty(val, Head(names)), Tail(names))

\* C22: a property access on the result of a function call, f(args).name,
\* evaluates the call and returns the named property of its result, with the
\* type of that property.
C22_PropertyOfCallResult ==
  Evaluated =>
    \A c \in ChainedCallCases :
      expression = c.text =>
        LET property == PropertyAt(evaluateExpression(c.call).value, c.names)
        IN  /\ ~Failed(result)
            /\ result.value = property
            /\ result.type = typeof(property)

\* C22: fromJSON('{"k":"v"}').k fails instead of returning 'v'
C22_Divergence ==
  /\ Evaluated
  /\ expression = <<"f", "r", "o", "m", "J", "S", "O", "N", "(", "'", "{", "\"", "k", "\"", ":", "\"", "v", "\"", "}", "'", ")", ".", "k">>
  /\ ~Failed(evaluateExpression(<<"f", "r", "o", "m", "J", "S", "O", "N", "(", "'", "{", "\"", "k", "\"", ":", "\"", "v", "\"", "}", "'", ")">>))
  /\ Failed(result)

\* C23: base[i] with an Array base and an index in range is the i-th element
\* of the array (and the names after it select from that element); with a
\* base that is not an Array, or an index out of range, the result is an
\* error result.
C23_IndexAccess ==
  Evaluated =>
    \A c \in IndexCases :
      expression = c.text =>
        LET base == evaluateExpression(c.base).value
        IN  IF base.t = "array" /\ c.index < Len(base.v)
            THEN /\ ~Failed(result)
                 /\ result.value = PropertyAt(base.v[c.index + 1], c.names)
            ELSE Failed(result)

\* C23: github.event.commits[0].message fails although commits is an Array
\* with an element 0
C23_Divergence ==
  /\ Evaluated
  /\ expression = <<"g", "i", "t", "h", "u", "b", ".", "e", "v", "e", "n", "t", ".", "c", "o", "m", "m", "i", "t", "s", "[", "0", "]", ".", "m", "e", "s", "s", "a", "g", "e">>
  /\ evaluateExpression(<<"g", "i", "t", "h", "u", "b", ".", "e", "v", "e", "n", "t", ".", "c", "o", "m", "m", "i", "t", "s">>).value.t = "array"
  /\ Failed(result)

\* the value of  l op r  for two values and a comparison operator
Applied(op, l, r) ==
  CASE op = EQ -> LooseEquals(l, r)
    [] op = NE -> ~LooseEquals(l, r)
    [] op = LT -> NumLess(Number(l), Number(r))
    [] OTHER -> NumLessEq(Number(r), Number(l))

\* C27: unary ! binds tighter than every binary operator, the relational
\* operators bind tighter than == and !=, and operators of equal precedence
\* associate to the left: a text with two operators has the value of its
\* grouping by precedence, the operator op applied to the values of l and r.
C27_GroupingByPrecedence ==
  Evaluated =>
    \A c \in PrecedenceCases :
      expression = c.text =>
        /\ ~Failed(result)
        /\ result.value = Bool(Applied(c.op, evaluateExpression(c.l).value,
                                       evaluateExpression(c.r).value))

\* C27: !2 == 1 is true, the negation of 2 == 1, where (!2) == 1 is false
C27_Divergence ==
  /\ Evaluated
  /\ expression = <<"!", "2", " ", "=", "=", " ", "1">>
  /\ evaluateExpression(<<"!", "2">>).value = Bool(FALSE)
  /\ result.value = Bool(TRUE)

----------------------------------------------------------------------------
(* The recursion of parseAndEvaluate, one call at a time                   *)

\* depth of calls followed
MaxDepth == 4

\* the expressions whose recursion is followed: every branch of
\* parseAndEvaluate that calls parseAndEvaluate is taken by one of them
DescentTexts ==
  {<<"e", "n", "v", ".", "A", " ", "&", "&", " ", "e", "n", "v", ".", "B", " ", "|", "|", " ", "e", "n", "v", ".", "N">>, <<"!", "e", "n", "v", ".", "B">>, <<"e", "n", "v", ".", "N", " ", ">", "=", " ", "4", "2", " ", "=", "=", " ", "t", "r", "u", "e">>, <<"!", "s", "u", "c", "c", "e", "s", "s", "(", ")", " ", "!", "=", " ", "f", "a", "l", "s", "e">>,
   <<"c", "o", "n", "t", "a", "i", "n", "s", "(", "e", "n", "v", ".", "A", ",", " ", "'", "x", "'", ")", " ", "&", "&", " ", "s", "t", "a", "r", "t", "s", "W", "i", "t", "h", "(", "'", "a", "b", "'", ",", " ", "'", "a", "'", ")">>, <<"e", "n", "d", "s", "W", "i", "t", "h", "(", "e", "n", "v", ".", "M", ",", " ", "'", "x", "'", ")">>,
   <<"f", "o", "r", "m", "a", "t", "(", "'", "{", "0", "}", "-", "{", "1", "}", "'", ",", " ", "e", "n", "v", ".", "A", ",", " ", "j", "o", "i", "n", "(", "f", "r", "o", "m", "J", "S", "O", "N", "(", "v", "a", "r", "s", ".", "L", ")", ")", ")">>, <<"t", "o", "J", "S", "O", "N", "(", "f", "r", "o", "m", "J", "S", "O", "N", "(", "v", "a", "r", "s", ".", "L", ")", ")">>,
   <<"j", "o", "i", "n", "(", "g", "i", "t", "h", "u", "b", ".", "e", "v", "e", "n", "t", ".", "c", "o", "m", "m", "i", "t", "s", ",", " ", "e", "n", "v", ".", "M", ")">>, <<"f", "r", "o", "m", "J", "S", "O", "N", "(", "'", "{", "\"", "k", "\"", ":", "\"", "v", "\"", "}", "'", ")", ".", "k">>, <<"s", "u", "c", "c", "e", "s", "s", "(", "e", "n", "v", ")", ".", "A">>,
   <<"$", "{", "{", " ", "!", "(", "e", "n", "v", ".", "A", " ", "=", "=", " ", "'", "x", "'", ")", " ", "}", "}">>, <<"h", "a", "s", "h", "F", "i", "l", "e", "s", "(", "'", "a", "'", ")", " ", "|", "|", " ", "1">>, <<"t", "o", "J", "S", "O", "N", "(", " ", ")">>, <<"1", " ", "<", " ", "2", " ", "<", " ", "3">>,
   <<"c", "o", "n", "t", "a", "i", "n", "s", " ", "(", "'", "a", ".", "b", "'", ",", " ", "'", "c", "'", ")">>, <<"s", "u", "c", "c", "e", "s", "s", "(", "1", ".", "5", ")">>, <<"a", "l", "w", "a", "y", "s", " ", "(", "g", "i", "t", "h", "u", "b", ".", "r", "e", "f", ")">>, <<"f", "o", "r", "m", "a", "t", " ", "(", "'", "{", "0", "}", "'", ",", " ", "e", "n", "v", ".", "A", ")", " ", "=", "=", " ", "'", "x", "'">>}

\* the texts parseAndEvaluate(e) hands to parseAndEvaluate itself, in the
\* branch that takes e; a call that comes after another one is made when the
\* earlier one has not thrown (and, after a logical operator, when the left
\* operand does not decide)
recursiveCalls(e) ==
  LET prefixNames == <<<<"c", "o", "n", "t", "a", "i", "n", "s">>, <<"s", "t", "a", "r", "t", "s", "W", "i", "t", "h">>, <<"e", "n", "d", "s", "W", "i", "t", "h">>,
                       <<"f", "o", "r", "m", "a", "t">>, <<"t", "o", "J", "S", "O", "N">>, <<"f", "r", "o", "m", "J", "S", "O", "N">>,
                       <<"j", "o", "i", "n">>, <<"h", "a", "s", "h", "F", "i", "l", "e", "s">>>>
      matching == {k \in 1..Len(prefixNames) : startsWith(e, prefixNames[k] \o <<"(">>)}
      functionName == IF matching = {} THEN <<>>
                      ELSE prefixNames[CHOOSE k \in matching : \A j \in matching : k <= j]
      trimmed(args) == [k \in 1..Len(args) |-> trim(args[k])]
      \* the arguments a function branch evaluates, in the order of its calls
      functionCalls(name, matched, inner, args) ==
        IF ~matched THEN <<>>
        ELSE IF name \in {<<"c", "o", "n", "t", "a", "i", "n", "s">>, <<"s", "t", "a", "r", "t", "s", "W", "i", "t", "h">>, <<"e", "n", "d", "s", "W", "i", "t", "h">>}
             THEN (IF Len(args) = 2 THEN trimmed(args) ELSE <<>>)
        ELSE IF name = <<"f", "o", "r", "m", "a", "t">> THEN args
        ELSE IF name \in {<<"t", "o", "J", "S", "O", "N">>, <<"f", "r", "o", "m", "J", "S", "O", "N">>} THEN <<trim(inner)>>
        ELSE IF name = <<"j", "o", "i", "n">> THEN (IF Len(args) \in {1, 2} THEN trimmed(args) ELSE <<>>)
        ELSE <<>>
      ofCall(name, call) == functionCalls(name, call.matched, call.args, parseArguments(call.args))
      \* the operands of a logical or comparison operator: left, then right
      operands(operator, operatorIndex) ==
        LET leftPart == trim(substring(e, 0, operatorIndex))
            rightPart == trim(sliceFrom(e, operatorIndex + Len(operator)))
        IN  IF operatorIndex = -1 \/ leftPart = <<>> \/ rightPart = <<>> THEN <<>>
            ELSE <<leftPart, rightPart>>
      chained(splitIndex) == IF splitIndex = -1 THEN <<e>> ELSE <<substring(e, 0, splitIndex)>>
      \* the calls of the branch that takes e, were none of them to stop it
      branch(name, logical, comparison) ==
        IF endsWith(e, <<"(", ")">>) /\ substring(e, 0, Len(e) - 2) \in StatusFunctionNames THEN <<>>
        ELSE IF name # <<>> THEN ofCall(name, MatchCall(e, name))
        ELSE IF logical # <<>> THEN operands(logical, findLastOperatorIndex(e, logical))
        ELSE IF startsWith(e, <<"!">>) /\ ~includes(e, <<"!", "=">>) THEN <<trim(sliceFrom(e, 1))>>
        ELSE IF comparison # <<>> THEN operands(comparison, indexOf(e, comparison))
        ELSE IF includes(e, <<".">>) /\ isFunction(e) /\ ~hasOperators(e)
             THEN chained(chainedSplitIndex(e, 0, 0))
        ELSE <<>>
      \* a call that throws ends the calls of its caller, and the left operand
      \* of a logical operator that fails or decides leaves the right one out
      stops(made, logical) ==
        \/ made.thrown
        \/ /\ logical # <<>>
           /\ \/ made.error # NoError
              \/ logical = AND /\ ~isTruthy(made.value)
              \/ logical = OR /\ isTruthy(made.value)
      callsMade(texts, logical) ==
        {texts[k] : k \in {m \in 1..Len(texts) :
                             \A j \in 1..(m - 1) : ~stops(parseAndEvaluate(texts[j]), logical)}}
      descend(name, logical, comparison) ==
        callsMade(branch(name, logical, comparison), IF name = <<>> THEN logical ELSE <<>>)
  IN  descend(functionName, lowestLogicalOperator(e), firstComparisonOperator(e))

DescentInit ==
  /\ context \in Snapshots
  /\ expression \in DescentTexts
  /\ result = NoResult
  /\ calls = 0
  /\ Unmounted(Absent, Absent)

\* evaluateExpression: this.parseAndEvaluate(cleanExpression)
EnterEvaluation ==
  /\ frames = <<>>
  /\ cleanExpression(expression) # <<>>
  /\ frames' = <<cleanExpression(expression)>>
  /\ UNCHANGED <<context, expression, result, calls, app>>

\* the call in progress calls parseAndEvaluate
Recurse ==
  /\ frames # <<>>
  /\ Len(frames) < MaxDepth
  /\ \E text \in recursiveCalls(frames[Len(frames)]) : frames' = Append(frames, text)
  /\ UNCHANGED <<context, expression, result, calls, app>>

DescentNext == EnterEvaluation \/ Recurse

DescentSpec == DescentInit /\ [][DescentNext]_vars

\* C28: every evaluation terminates, because each recursive call of
\* parseAndEvaluate receives a text strictly shorter than the text of the
\* call that makes it.
C28_EachCallGetsAShorterText ==
  [][frames # <<>> /\ Len(frames') > Len(frames)
       => Len(frames'[Len(frames')]) < Len(frames[Len(frames)])]_vars

\* C28: the calls for success(1.5) go on with the same text to any depth
C28_Divergence ==
  /\ expression = <<"s", "u", "c", "c", "e", "s", "s", "(", "1", ".", "5", ")">>
  /\ Len(frames) = MaxDepth
  /\ \A i \in 1..MaxDepth : frames[i] = expression

----------------------------------------------------------------------------
(* App, ContextBuilder and ExpressionInput: mount, the handlers of the     *)
(* variables panel, export and share, and the debounced evaluation         *)

\* number of variables the panel holds at most
MaxVariables == 2

Secrets == <<"s", "e", "c", "r", "e", "t", "s">>

\* mutant of withoutSecrets: every variable is written
withoutSecrets_KeepsAll(vs) == vs

\* variables.filter(v => v.type !== 'secrets')
withoutSecrets(vs) ==
  LET RECURSIVE filter(_)
      filter(s) == IF s = <<>> THEN <<>>
                   ELSE (IF Head(s).type # Secrets THEN <<Head(s)>> ELSE <<>>) \o filter(Tail(s))
  IN  filter(vs)

\* the state object written to localStorage, to the exported file and to the
\* share link: JSON.stringify and JSON.parse give back the same four text
\* fields of each variable
Saved(vs) == [present |-> TRUE, variables |-> withoutSecrets(vs)]

\* the context of buildEvaluationContext(): env, vars, secrets and inputs
\* start empty and context[variable.type][variable.name] = variable.value is
\* done for the variables in the order of the list; the other roots are fixed
buildEvaluationContext(vs) ==
  LET RECURSIVE assigned(_, _, _)
      assigned(pairs, s, type) ==
        IF s = <<>> THEN pairs
        ELSE assigned(IF Head(s).type = type
                      THEN SetPair(pairs, Head(s).name, Str(Head(s).value)) ELSE pairs,
                      Tail(s), type)
      fixed == Snapshot(<<>>, <<>>).v
  IN  Obj(1, [k \in 1..Len(fixed) |->
                IF k <= 4 THEN <<fixed[k][1], Obj(k + 1, assigned(<<>>, vs, fixed[k][1]))>>
                ELSE fixed[k]])

\* setVariables(vs) and the effects of the render it causes: the auto-save
\* effect writes the state, and ExpressionInput's effect, which depends on
\* the onEvaluate of this render, clears its timer and sets a new one
Rendered(vs) ==
  /\ variables' = vs
  /\ storage' = Saved(vs)
  /\ timer' = [pending |-> TRUE, expression |-> expression, variables |-> vs]
  /\ output' = NoOutput

\* the first commit of App: the three mount effects in their order, then the
\* render their setVariables calls cause
Mount ==
  /\ phase = "opened"
  /\ LET \* effect 1: state.variables of the fragment, and the fragment is cleared
         fromHash == IF hash.present THEN hash.variables ELSE variables
         hashLeft == IF hash.present THEN Absent ELSE hash
         \* effect 2: the auto-save of the first render's variables
         written == Saved(variables)
         \* effect 3: the saved state is read back when the URL holds no fragment
         fromStorage == IF written.present /\ ~hashLeft.present THEN written.variables
                        ELSE fromHash
     IN  /\ Rendered(fromStorage)
         /\ toggledOn' = [i \in 1..Len(fromStorage) |-> FALSE]
         /\ hash' = hashLeft
  /\ phase' = "mounted"
  /\ UNCHANGED <<context, expression, result, calls, frames, opened, currentScope, revealedSecrets>>

\* <select value={currentScope} onChange=...>
SetCurrentScope ==
  /\ phase = "mounted"
  /\ \E scope \in {"workflow", "step"} : scope # currentScope /\ currentScope' = scope
  /\ output' = NoOutput
  /\ UNCHANGED <<context, expression, result, calls, frames, variables, storage, hash, phase, opened,
                 revealedSecrets, toggledOn, timer>>

\* addVariable(type)
AddVariable ==
  /\ phase = "mounted"
  /\ Len(variables) < MaxVariables
  /\ \E type \in {<<"e", "n", "v">>, Secrets} :
       Rendered(Append(variables, [name |-> <<>>, value |-> <<>>, type |-> type, scope |-> currentScope]))
  /\ toggledOn' = Append(toggledOn, FALSE)
  /\ UNCHANGED <<context, expression, result, calls, frames, hash, phase, opened, currentScope,
                 revealedSecrets>>

\* updateVariable(index, field, value), from the name and value inputs
UpdateVariable ==
  /\ phase = "mounted"
  /\ \E i \in 1..Len(variables) :
       \E typed \in {[field |-> "name", text |-> <<"A">>], [field |-> "value", text |-> <<"j">>]} :
         /\ variables[i][typed.field] # typed.text
         /\ Rendered([variables EXCEPT ![i][typed.field] = typed.text])
  /\ UNCHANGED <<context, expression, result, calls, frames, hash, phase, opened, currentScope,
                 revealedSecrets, toggledOn>>

\* removeVariable(index)
RemoveVariable ==
  /\ phase = "mounted"
  /\ \E i \in 1..Len(variables) :
       /\ Rendered(SubSeq(variables, 1, i - 1) \o SubSeq(variables, i + 1, Len(variables)))
       /\ toggledOn' = SubSeq(toggledOn, 1, i - 1) \o SubSeq(toggledOn, i + 1, Len(toggledOn))
  /\ UNCHANGED <<context, expression, result, calls, frames, hash, phase, opened, currentScope,
                 revealedSecrets>>

\* toggleSecretVisibility(globalIndex), from the button of a secret's row
ToggleSecretVisibility ==
  /\ phase = "mounted"
  /\ \E i \in 1..Len(variables) :
       /\ variables[i].type = Secrets
       /\ revealedSecrets' = IF (i - 1) \in revealedSecrets THEN revealedSecrets \ {i - 1}
                             ELSE revealedSecrets \cup {i - 1}
       /\ toggledOn' = [toggledOn EXCEPT ![i] = (i - 1) \notin revealedSecrets]
  /\ output' = NoOutput
  /\ UNCHANGED <<context, expression, result, calls, frames, variables, storage, hash, phase, opened,
                 currentScope, timer>>

\* the states a user imports: files written by hand or by another version
ImportedStates ==
  {<<[name |-> <<"T">>, value |-> <<"s">>, type |-> Secrets, scope |-> "workflow"]>>,
   <<[name |-> <<"A">>, value |-> <<"j">>, type |-> <<"e", "n", "v">>, scope |-> "step"],
     [name |-> <<"A">>, value |-> <<>>, type |-> Secrets, scope |-> "job"]>>}

\* handleImport(state), called by importState with the parsed file
HandleImport ==
  /\ phase = "mounted"
  /\ \E vs \in ImportedStates :
       /\ vs # variables
       /\ Rendered(vs)
       /\ toggledOn' = [i \in 1..Len(vs) |-> FALSE]
  /\ UNCHANGED <<context, expression, result, calls, frames, hash, phase, opened, currentScope,
                 revealedSecrets>>

\* exportState(): the JSON file handed to the browser as a download
ExportState ==
  /\ phase = "mounted"
  /\ output' = [kind |-> "export", variables |-> Saved(variables).variables]
  /\ UNCHANGED <<context, expression, result, calls, frames, variables, storage, hash, phase, opened,
                 currentScope, revealedSecrets, toggledOn, timer>>

\* handleShareLink(): the URL opened in a new tab, with the state in its fragment
HandleShareLink ==
  /\ phase = "mounted"
  /\ output' = [kind |-> "share", variables |-> Saved(variables).variables]
  /\ UNCHANGED <<context, expression, result, calls, frames, variables, storage, hash, phase, opened,
                 currentScope, revealedSecrets, toggledOn, timer>>

\* the page opened with nothing saved
AppInit ==
  /\ context = buildEvaluationContext(Defaults)
  /\ expression = DefaultExpression
  /\ result = NoResult
  /\ calls = 0
  /\ Unmounted(Absent, Absent)

PanelNext ==
  \/ Mount
  \/ SetCurrentScope
  \/ AddVariable
  \/ UpdateVariable
  \/ RemoveVariable
  \/ ToggleSecretVisibility
  \/ HandleImport
  \/ ExportState
  \/ HandleShareLink

PanelSpec == AppInit /\ [][PanelNext]_vars

\* the variables found in the states a browser has kept from earlier visits
SavedVariables ==
  {[name |-> <<"A">>, value |-> <<"j">>, type |-> <<"e", "n", "v">>, scope |-> "job"],
   [name |-> <<"B">>, value |-> <<"k">>, type |-> <<"v", "a", "r", "s">>, scope |-> "workflow"],
   [name |-> <<"T">>, value |-> <<"s">>, type |-> Secrets, scope |-> "step"]}

\* the variable lists of those states
SavedLists ==
  {<<>>} \cup {<<a>> : a \in SavedVariables} \cup {<<a, b>> : a \in SavedVariables, b \in SavedVariables}

\* the page opened with a share link or not, after an earlier visit or not
MountInit ==
  /\ context = buildEvaluationContext(Defaults)
  /\ expression = DefaultExpression
  /\ result = NoResult
  /\ calls = 0
  /\ \E h \in {Absent} \cup {[present |-> TRUE, variables |-> vs] : vs \in SavedLists},
        s \in {Absent} \cup {Saved(vs) : vs \in SavedLists} :
       Unmounted(h, s)

MountSpec == MountInit /\ [][Mount]_vars

\* the texts the user leaves in the editor
InputTexts == {DefaultExpression, <<"e", "n", "v", ".", "A">>, <<"e", "n", "v", ".", "A", " ", "=", "=", " ", "'", "j", "'">>, <<"e", "n", "v", ".", "T">>, <<>>, <<" ">>}

\* mutant of SetExpression: the timer of the previous text is left as it is
SetExpression_KeepsTimer ==
  /\ phase = "mounted"
  /\ \E text \in InputTexts : text # expression /\ expression' = text
  /\ output' = NoOutput
  /\ UNCHANGED <<context, result, calls, frames, variables, storage, hash, phase, opened, currentScope,
                 revealedSecrets, toggledOn, timer>>

\* setExpression(value) from the editor, and ExpressionInput's effect: the
\* cleanup clears the timer of the previous text, a new one is set
SetExpression ==
  /\ phase = "mounted"
  /\ \E text \in InputTexts :
       /\ text # expression
       /\ expression' = text
       /\ timer' = [pending |-> TRUE, expression |-> text, variables |-> variables]
  /\ output' = NoOutput
  /\ UNCHANGED <<context, result, calls, frames, variables, storage, hash, phase, opened, currentScope,
                 revealedSecrets, toggledOn>>

\* the debounce timer fires: evaluateExpression of the effect, with the
\* expression and the onEvaluate the effect captured; a blank expression
\* clears the result, otherwise handleEvaluateExpression builds the context
\* for a new ExpressionEvaluator and the effect awaits its result (no other
\* handler runs before the awaited promise is settled)
TimerFires ==
  /\ phase = "mounted"
  /\ timer.pending
  /\ IF trim(timer.expression) = <<>>
     THEN /\ result' = NoResult
          /\ timer' = NoTimer
          /\ UNCHANGED <<context, phase>>
     ELSE /\ context' = buildEvaluationContext(timer.variables)
          /\ phase' = "evaluating"
          /\ UNCHANGED <<result, timer>>
  /\ output' = NoOutput
  /\ UNCHANGED <<expression, calls, frames, variables, storage, hash, opened, currentScope,
                 revealedSecrets, toggledOn>>

\* const result = await onEvaluate(expression); setResult(result)
SetResult ==
  /\ phase = "evaluating"
  /\ result' = evaluateExpression(timer.expression)
  /\ calls' = 1
  /\ timer' = NoTimer
  /\ phase' = "mounted"
  /\ UNCHANGED <<context, expression, frames, variables, storage, hash, output, opened, currentScope,
                 revealedSecrets, toggledOn>>

InputNext == Mount \/ SetExpression \/ UpdateVariable \/ TimerFires \/ SetResult

\* a timer that is set and not cleared fires, and the awaited result arrives
\* (the step that leaves the phase "evaluating" is SetResult)
InputSpec ==
  /\ AppInit
  /\ [][InputNext]_vars
  /\ WF_vars(TimerFires)
  /\ WF_phase(phase = "evaluating" /\ phase' = "mounted")

\* no variable of type 'secrets' in a list of variables
NoSecretIn(vs) == \A i \in 1..Len(vs) : vs[i].type # Secrets

\* C24: secrets are never persisted or shared: after any sequence of add,
\* update, remove and import, the state written to localStorage, the
\* exported JSON state and the payload of the share link hold no variable of
\* type 'secrets'.
C24_SecretsNeverLeaveTheBrowser ==
  /\ NoSecretIn(storage.variables)
  /\ NoSecretIn(output.variables)

\* C24: a share link was made, and the state was saved, while the panel held
\* a secret with a value
C24_Witness ==
  /\ output.kind = "share"
  /\ storage.present
  /\ \E i \in 1..Len(variables) : variables[i].type = Secrets /\ variables[i].value # <<>>
  /\ \E i \in 1..Len(variables) : variables[i].type # Secrets

\* C25: on mount the saved state is restored: the state of the URL fragment
\* when there is one, otherwise the state of localStorage, and the defaults
\* only when there is neither.
C25_SavedStateIsRestoredOnMount ==
  [][phase = "opened" /\ phase' = "mounted" =>
       variables' = IF hash.present THEN hash.variables
                    ELSE IF storage.present THEN storage.variables
                    ELSE Defaults]_vars

\* C25: the page was opened with a state in localStorage and no fragment,
\* and after mount the variables are the defaults without their secret
C25_Divergence ==
  /\ phase = "mounted"
  /\ opened.storage.present
  /\ ~opened.hash.present
  /\ variables # opened.storage.variables
  /\ variables = withoutSecrets(Defaults)

\* workflow, job, step: the later the more specific
ScopeRank(scope) == CASE scope = "workflow" -> 1 [] scope = "job" -> 2 [] OTHER -> 3

\* context.env[name] of the context built from the variables
ResolvedEnv(name) == GetProperty(GetProperty(buildEvaluationContext(variables), <<"e", "n", "v">>), name)

\* C26: env.NAME resolves to the value of the env variable NAME of the most
\* specific scope (step over job over workflow), whatever the order in which
\* the variables were added or edited.
C26_MostSpecificScopeWins ==
  \A name \in {variables[i].name : i \in 1..Len(variables)} :
    LET named == {i \in 1..Len(variables) :
                    variables[i].type = <<"e", "n", "v">> /\ variables[i].name = name}
        mostSpecific == {i \in named :
                           \A j \in named : ScopeRank(variables[j].scope) <= ScopeRank(variables[i].scope)}
    IN  named # {} => ResolvedEnv(name) \in {Str(variables[i].value) : i \in mostSpecific}

\* C26: A is 'j' at step scope and '' at workflow scope, the workflow
\* variable was added later, and env.A is ''
C26_Divergence ==
  /\ Len(variables) = 2
  /\ variables[1] = [name |-> <<"A">>, value |-> <<"j">>, type |-> <<"e", "n", "v">>, scope |-> "step"]
  /\ variables[2] = [name |-> <<"A">>, value |-> <<>>, type |-> <<"e", "n", "v">>, scope |-> "workflow"]
  /\ ResolvedEnv(<<"A">>) = Str(<<>>)

\* the latest expression and the latest variables are what is displayed: no
\* result for a blank expression, otherwise the result of evaluating the
\* expression on the context built from the variables
LatestIsDisplayed ==
  IF trim(expression) = <<>> THEN result = NoResult
  ELSE context = buildEvaluationContext(variables) /\ result = evaluateExpression(expression)

\* C29 as amended: the timer that is pending is the one of the latest
\* expression and context (an evaluation scheduled for a replaced expression
\* is cancelled); at every step taken when no evaluation is pending the
\* displayed result is that of the latest expression on the latest context,
\* or no result for a blank expression, so an older result never replaces a
\* newer one; and a pending evaluation leads to a state where none is pending.
C29_LatestExpressionIsEvaluated ==
  /\ [](timer.pending => timer.expression = expression /\ timer.variables = variables)
  /\ [][phase = "mounted" /\ ~timer.pending => LatestIsDisplayed]_vars
  /\ (timer.pending ~> (phase = "mounted" /\ ~timer.pending))

\* C29: the value of A was changed and the expression replaced, and the
\* result displayed is that of the latest expression on the latest context
C29_Witness ==
  /\ ~timer.pending
  /\ expression = <<"e", "n", "v", ".", "A", " ", "=", "=", " ", "'", "j", "'">>
  /\ variables[1].value = <<"j">>
  /\ result.value = Bool(TRUE)
  /\ result.contextHits # <<>>

\* C29: once no evaluation is pending, the displayed result is the
\* evaluation of the latest expression, whatever the expression.
C29_DisplayedIsTheEvaluation ==
  phase = "mounted" /\ ~timer.pending => result = evaluateExpression(expression)

\* C30: the value of a secret is shown in clear text only when the user's
\* latest toggle of that secret was a reveal, after any sequence of
\* add-variable, remove-variable and toggle.
C30_OnlyToggledSecretsAreShown ==
  \A i \in 1..Len(variables) :
    variables[i].type = Secrets /\ (i - 1) \in revealedSecrets => toggledOn[i]

\* C30: two secrets were added, the first one revealed and then removed: the
\* second one, never toggled, is in the revealed row
C30_Divergence ==
  /\ Len(variables) = 1
  /\ variables[1].type = Secrets
  /\ variables[1].name = <<>>
  /\ revealedSecrets = {0}
  /\ toggledOn = <<FALSE>>

====
